---- MODULE Spec2Model ----
(***************************************************************************)
(* A model of picturephone.c: the session loop of runNetworkMode (peer     *)
(* protocol parser, Config/Picture sends, rate limit), the process         *)
(* lifecycle of main (raw mode, at-exit hook, fatal exits, Ctrl-C), and    *)
(* the latest-frame slot shared by the capture callback and the main       *)
(* thread.                                                                 *)
(*                                                                         *)
(* Each process is a record P[s]; the two ends of a TCP connection are the *)
(* sides "srv" and "cli".  chan[s] holds the bytes in flight towards s.    *)
(* Fields whose name starts with h_ are history (observation) fields: they *)
(* record what the code did and are never read by it.                      *)
(***************************************************************************)
EXTENDS Integers, Sequences, FiniteSets, TLC

VARIABLES
  clock,   \* wall clock in ms, as read by current_timestamp()
  chan,    \* chan[s]: bytes written towards side s, not yet read by it
  eof,     \* eof[s]: the other end of s's connection has been closed
  stdin,   \* stdin[s]: keyboard bytes not yet read
  P,       \* P[s]: the state of the process on side s
  env,     \* env[s]: what the scripted peer has put on chan[s] (history)
  call     \* a function of the program called on its own: arguments, result

vars == <<clock, chan, eof, stdin, P, env, call>>

\* no function is called on its own
NoCall == [fn |-> "none"]

Side == {"srv", "cli"}
Other(s) == IF s = "srv" THEN "cli" ELSE "srv"

(***************************************************************************)
(* Bounds of the model.                                                    *)
(***************************************************************************)
MaxPkts == 2        \* packets a scripted peer puts on the wire
SockCap == 6        \* bytes the socket send buffer takes before EAGAIN
MaxKeys == 2        \* keyboard bytes typed
MaxClock == 70      \* the clock stops advancing here
MaxFrames == 3      \* frames the dummy source produces in the mirror loop
RateHorizon == 1100 \* the clock of the rate-limit runs stops here
MaxLag == 1         \* ms by which select returns after its timeout at most
MaxConfs == 3       \* Config packets a process sends

(***************************************************************************)
(* Program constants.                                                      *)
(***************************************************************************)
CH_C == 67          \* 'C'
CH_P == 80          \* 'P'
CTRL_C == 3
KEY_v == 118        \* 'v'
KEY_V == 86         \* 'V'
DIM_MAX == 255      \* clamp of my_w / my_h
PEER_W0 == 80       \* default peer_w
PEER_H0 == 60       \* default peer_h
FRAME_MS == 33      \* next_frame_time = now + 33
MS_PER_SEC == 1000  \* te.tv_sec*1000LL: the clock counts milliseconds
NET_MAX == 65536  \* unsigned char *net_buffer = malloc(65536)
RECV_MAX == 131000  \* read(sockfd, recv_buffer + recv_len, 131000 - recv_len)
CAM_W == 640
CAM_H == 480

Min(a, b) == IF a < b THEN a ELSE b
Max(a, b) == IF a > b THEN a ELSE b

\* (unsigned char)x for an int x
U8(x) == x % 256

\* The first n elements of q (only these elements of q are evaluated).
Take(q, n) == [i \in 1 .. n |-> q[i]]
Drop(q, n) == SubSeq(q, n + 1, Len(q))

(***************************************************************************)
(* The dummy-gradient camera (getDummyFrame): pixel (x, y) of the frame    *)
(* produced by the fc-th call has B = G = R = (x + y + fc) % 255.          *)
(***************************************************************************)
\* A gradient that runs along x only.
GradientValX(x, y, fc) == (x + fc) % 255

GradientVal(x, y, fc) == (x + y + fc) % 255

\* (r*77 + g*150 + b*29) >> 8
Luma(r, g, b) == (r * 77 + g * 150 + b * 29) \div 256

(***************************************************************************)
(* cameraGetFrame as the main thread sees it: the dummy source returns 1   *)
(* on every call and advances its frame counter; a device source returns 1 *)
(* once the first frame has been delivered.                                *)
(***************************************************************************)
CamHasFrame(p) == p.camera = "dummy" \/ p.cam_ready

CamGetFrame(p) ==
  IF p.camera = "dummy" THEN [p EXCEPT !.frame_counter = @ + 1] ELSE p

\* Luminance the encoder / rasterizer reads at source pixel (ix, iy).
CamLuma(p, ix, iy) ==
  LET v == IF p.camera = "dummy" THEN GradientVal(ix, iy, p.frame_counter)
           ELSE p.cam_fill
  IN Luma(v, v, v)

(***************************************************************************)
(* write(fd, buf, n) on the non-blocking session socket of side s: the     *)
(* kernel takes what fits into the send buffer; nothing fits: -1 (EAGAIN). *)
(***************************************************************************)
SockRoom(ch) == Max(0, SockCap - Len(ch))

SockWriteN(ch, len) ==
  IF len = 0 THEN 0
  ELSE IF SockRoom(ch) = 0 THEN -1
  ELSE Min(len, SockRoom(ch))

SockWrite(ch, buf, len) ==
  LET n == SockWriteN(ch, len)
  IN IF n > 0 THEN ch \o Take(buf, n) ELSE ch

\* The bytes a write sequence added to the channel.
Written(before, after) == SubSeq(after, Len(before) + 1, Len(after))

(***************************************************************************)
(* History of the outgoing byte stream as a receiver frames it: owe is the *)
(* number of payload bytes the Picture in progress still lacks, hdr the    *)
(* bytes of a header in progress, bad is set by a type byte that is        *)
(* neither 'C' nor 'P'.                                                    *)
(***************************************************************************)
FrameByte(f, b) ==
  IF f.owe > 0 THEN [f EXCEPT !.owe = @ - 1]
  ELSE LET hdr == Append(f.hdr, b)
       IN IF Len(hdr) < 3 THEN [f EXCEPT !.hdr = hdr]
          ELSE IF hdr[1] = CH_C THEN [f EXCEPT !.hdr = <<>>]
          ELSE IF hdr[1] = CH_P
          THEN [f EXCEPT !.hdr = <<>>, !.owe = hdr[2] * hdr[3]]
          ELSE [f EXCEPT !.hdr = <<>>, !.bad = TRUE]

RECURSIVE FrameFeed(_, _)
FrameFeed(f, bytes) ==
  IF bytes = <<>> THEN f
  ELSE FrameFeed(FrameByte(f, Head(bytes)), Tail(bytes))

Wrote(p, before, after) ==
  [p EXCEPT !.h_frame = FrameFeed(@, Written(before, after))]

RECURSIVE Flatten(_)
Flatten(ss) == IF ss = <<>> THEN <<>> ELSE Head(ss) \o Flatten(Tail(ss))

(***************************************************************************)
(* The density ramp: get_utf8_char_len and setDensityString.  str is read  *)
(* as memory: the bytes of the string, its terminating 0, and what the     *)
(* buffer holds behind the terminator.  E.density_arg is zero-filled at    *)
(* program start, and ttyInput's backspace over a multi-byte character     *)
(* writes one 0 and leaves the continuation bytes behind it in place, so   *)
(* the bytes behind the terminator are 0 or stale; behind the modelled     *)
(* memory everything is 0.                                                 *)
(***************************************************************************)
\* (c & 0x80) == 0 -> 1; (c & 0xE0) == 0xC0 -> 2; (c & 0xF0) == 0xE0 -> 3;
\* (c & 0xF8) == 0xF0 -> 4; otherwise 1
get_utf8_char_len(c) ==
  IF c - (c % 128) = 0 THEN 1
  ELSE IF c - (c % 32) = 192 THEN 2
  ELSE IF c - (c % 16) = 224 THEN 3
  ELSE IF c - (c % 8) = 240 THEN 4
  ELSE 1

MemAt(mem, i) == IF i <= Len(mem) THEN mem[i] ELSE 0

\* "First pass: count glyphs", p being the index the pointer is at
RECURSIVE CountGlyphs(_, _)
CountGlyphs(mem, p) ==
  IF MemAt(mem, p) = 0 THEN 0
  ELSE 1 + CountGlyphs(mem, p + get_utf8_char_len(MemAt(mem, p)))

\* "Second pass: store glyphs": the len bytes memcpy copies for each of the
\* n glyphs (the 0 written behind them is implied)
RECURSIVE StoreGlyphs(_, _, _)
StoreGlyphs(mem, p, n) ==
  IF n = 0 THEN <<>>
  ELSE LET len == get_utf8_char_len(MemAt(mem, p))
       IN <<[k \in 1 .. len |-> MemAt(mem, p + k - 1)]>>
          \o StoreGlyphs(mem, p + len, n - 1)

\* E.density_glyphs after setDensityString(str); E.density_count is its
\* length (0 and NULL when no glyph was counted)
setDensityString(mem) == StoreGlyphs(mem, 1, CountGlyphs(mem, 1))

\* A glyph as the renderers use it: the bytes up to strlen
RECURSIVE CStr(_)
CStr(bytes) ==
  IF bytes = <<>> \/ Head(bytes) = 0 THEN <<>>
  ELSE <<Head(bytes)>> \o CStr(Tail(bytes))

(***************************************************************************)
(* The bytes of an append buffer.                                          *)
(***************************************************************************)
\* " .x?A@"
DENSITY_ASCII_DEFAULT == <<32, 46, 120, 63, 65, 64>>

\* " .x?" and the four block characters U+2582, U+2584, U+2586, U+2588
DENSITY_UNICODE_DEFAULT ==
  <<32, 46, 120, 63, 226, 150, 130, 226, 150, 132, 226, 150, 134,
    226, 150, 136>>

\* resolveDensityConfig: E.density_glyphs for E.density_arg ("" unless the
\* command line or the TUI set it; "custom" stands for any other string,
\* whose bytes are density_custom) and the locale (LANG / LC_ALL name UTF-8)
ResolveDensityConfig(density_arg, density_custom, lang_utf8) ==
  IF density_arg = "ascii-default"
  THEN setDensityString(DENSITY_ASCII_DEFAULT \o <<0>>)
  ELSE IF density_arg = "unicode-default"
  THEN setDensityString(DENSITY_UNICODE_DEFAULT \o <<0>>)
  ELSE IF density_arg # "" THEN setDensityString(density_custom \o <<0>>)
  ELSE IF lang_utf8 THEN setDensityString(DENSITY_UNICODE_DEFAULT \o <<0>>)
  ELSE setDensityString(DENSITY_ASCII_DEFAULT \o <<0>>)

\* the ramp made of the first n glyphs of the ASCII default
RampOf(n) == setDensityString(SubSeq(DENSITY_ASCII_DEFAULT, 1, n) \o <<0>>)

\* "%d" of n >= 0
RECURSIVE Digits(_)
Digits(n) ==
  IF n < 10 THEN <<48 + n>> ELSE Digits(n \div 10) \o <<48 + (n % 10)>>

\* snprintf(buf, sizeof(buf), "\x1b[%d;%dH", row, col)
CursorTo(row, col) ==
  <<27, 91>> \o Digits(row) \o <<59>> \o Digits(col) \o <<72>>

\* what the abAppend calls of ab put into the buffer, glyph idx being
\* appended with strlen(E.density_glyphs[idx]) bytes
AbBytes(ab, density_glyphs) ==
  Flatten([k \in 1 .. Len(ab) |->
             IF ab[k][1] = "cup" THEN CursorTo(ab[k][2], ab[k][3])
             ELSE CStr(density_glyphs[ab[k][2] + 1])])

(***************************************************************************)
(* The rasterizers renderBuffer (one luminance byte per pixel) and          *)
(* renderBufferBGRA (four bytes per pixel).  The append buffer ab is the    *)
(* sequence of abAppend calls made on it: <<"cup", row, col>> for the       *)
(* cursor-position sequence "\x1b[<row>;<col>H" and <<"glyph", idx, 0>> for *)
(* the bytes of E.density_glyphs[idx].  All operands of the divisions are   *)
(* non-negative, where C's "/" and \div agree.                              *)
(***************************************************************************)
\* ix = mirror ? ((target_w-1-x)*w)/target_w : (x*w)/target_w, kept below w
\* A sampler that takes no notice of mirror.
SampleXPlain(x, w, target_w, mirror) ==
  LET ix == (x * w) \div target_w
  IN IF ix >= w THEN w - 1 ELSE ix

\* A mirrored sampler that takes the pixel opposite to the unmirrored one.
SampleXOpposite(x, w, target_w, mirror) ==
  LET ix == IF mirror THEN w - 1 - ((x * w) \div target_w)
            ELSE (x * w) \div target_w
  IN IF ix >= w THEN w - 1 ELSE ix

SampleX(x, w, target_w, mirror) ==
  LET ix == IF mirror THEN ((target_w - 1 - x) * w) \div target_w
            ELSE (x * w) \div target_w
  IN IF ix >= w THEN w - 1 ELSE ix

\* iy = (y*h)/target_h, kept below h
SampleY(y, h, target_h) ==
  LET iy == (y * h) \div target_h
  IN IF iy >= h THEN h - 1 ELSE iy

\* A glyph index scaled by the number of glyphs instead of d_max.
GlyphIndexWide(v, min, range, d_max) ==
  ((v - min) * (d_max + 1)) \div range

\* A glyph index rounded to the nearest glyph.
GlyphIndexRound(v, min, range, d_max) ==
  ((v - min) * d_max + (range \div 2)) \div range

\* idx = (v - min) * d_max / range, clamped to [0, d_max]
GlyphIndex(v, min, range, d_max) ==
  LET idx == ((v - min) * d_max) \div range
  IN IF idx < 0 THEN 0 ELSE IF idx > d_max THEN d_max ELSE idx

SetMin(S) == CHOOSE m \in S : \A v \in S : m <= v
SetMax(S) == CHOOSE m \in S : \A v \in S : m >= v

\* The two passes of both rasterizers over the destination grid, V[x, y]
\* being the luminance they sample for destination cell (x, y).
Raster(ab, V, x_off, y_off, target_w, target_h, density_count) ==
  IF target_w <= 0 \/ target_h <= 0 THEN ab
  ELSE LET vals == {V[x, y] : x \in 0 .. target_w - 1, y \in 0 .. target_h - 1}
           min == SetMin(vals \cup {255})
           max == SetMax(vals \cup {0})
           range == IF max - min = 0 THEN 1 ELSE max - min
           d_max == density_count - 1
           per == IF density_count > 0 THEN target_w + 1 ELSE 1
           Tok(k) ==
             LET y == (k - 1) \div per
                 c == (k - 1) % per
             IN IF c = 0 THEN <<"cup", y_off + y + 1, x_off + 1>>
                ELSE <<"glyph", GlyphIndex(V[c - 1, y], min, range, d_max), 0>>
       IN ab \o [k \in 1 .. target_h * per |-> Tok(k)]

\* pixels[iy * w + ix], pixels being indexed from 1 here
RenderBuffer(ab, pixels, w, h, x_off, y_off, target_w, target_h, mirror, density_count) ==
  LET V == [x \in 0 .. target_w - 1, y \in 0 .. target_h - 1 |->
              pixels[SampleY(y, h, target_h) * w
                     + SampleX(x, w, target_w, mirror) + 1]]
  IN Raster(ab, V, x_off, y_off, target_w, target_h, density_count)

\* offset = (iy * w + ix) * 4; b, g, r = pixels[offset + 0, 1, 2];
\* v = (unsigned char)((r*77 + g*150 + b*29) >> 8)
RenderBufferBGRA(ab, pixels, w, h, x_off, y_off, target_w, target_h, mirror, density_count) ==
  LET V == [x \in 0 .. target_w - 1, y \in 0 .. target_h - 1 |->
              LET offset == (SampleY(y, h, target_h) * w
                             + SampleX(x, w, target_w, mirror)) * 4
              IN U8(Luma(pixels[offset + 3], pixels[offset + 2], pixels[offset + 1]))]
  IN Raster(ab, V, x_off, y_off, target_w, target_h, density_count)

\* The glyph indices of destination row y (0-based) in an append buffer
\* that one rasterizer call has filled, left to right.
RowGlyphs(ab, y, target_w) ==
  [x \in 1 .. target_w |-> ab[y * (target_w + 1) + 1 + x][2]]

(***************************************************************************)
(* redrawNetworkView: one cameraGetFrame call and one write to stdout that *)
(* starts with hide-cursor.                                                *)
(***************************************************************************)
Redraw(p) ==
  LET q == IF CamHasFrame(p) THEN CamGetFrame(p) ELSE p
  IN [q EXCEPT !.cursor = "hidden", !.h_redraws = @ + 1,
               !.h_drawn = [kind |-> "network", view |-> p.view_mode,
                            cols |-> p.screencols, rows |-> p.screenrows,
                            self |-> CamHasFrame(p),
                            fc |-> q.frame_counter]]

(***************************************************************************)
(* The receive parser: the while loop of runNetworkMode.                   *)
(***************************************************************************)
\* A Config handler that also takes the dimensions for those of the stored
\* picture.
HandleConfigStore(p, p_w, p_h) ==
  [p EXCEPT !.peer_w = p_w, !.peer_h = p_h,
            !.last_peer_w = p_w, !.last_peer_h = p_h,
            !.h_decoded = Append(@, <<CH_C, p_w, p_h>>)]

\* A Config handler that takes dimensions of 0 as well.
HandleConfigAny(p, p_w, p_h) ==
  [p EXCEPT !.peer_w = p_w, !.peer_h = p_h,
            !.h_decoded = Append(@, <<CH_C, p_w, p_h>>)]

\* type == 'C'
HandleConfig(p, p_w, p_h) ==
  LET q == IF p_w > 0 /\ p_h > 0
           THEN [p EXCEPT !.peer_w = p_w, !.peer_h = p_h]
           ELSE p
  IN [q EXCEPT !.h_decoded = Append(@, <<CH_C, p_w, p_h>>)]

\* A Picture handler that stores the picture and leaves the drawing to the
\* next view toggle.
HandlePictureQuiet(p, p_w, p_h) ==
  [p EXCEPT !.last_peer_w = p_w,
            !.last_peer_h = p_h,
            !.last_peer_pixels = SubSeq(p.recv, 4, 3 + p_w * p_h),
            !.h_decoded = Append(@, <<CH_P, p_w, p_h>>
                                      \o SubSeq(p.recv, 4, 3 + p_w * p_h))]

\* type == 'P' and the whole packet is in the accumulator
HandlePicture(p, p_w, p_h) ==
  LET px == SubSeq(p.recv, 4, 3 + p_w * p_h)
      q == [p EXCEPT !.last_peer_w = p_w,
                     !.last_peer_h = p_h,
                     !.last_peer_pixels = px,
                     !.h_decoded = Append(@, <<CH_P, p_w, p_h>> \o px)]
  IN Redraw(q)

\* A resync that throws the whole accumulator away.
ResyncFlush(p) ==
  [p |-> [p EXCEPT !.recv = <<>>, !.h_skipped = @ + 1], cont |-> TRUE]

\* memmove(recv_buffer, recv_buffer + 1, recv_len - 1); recv_len--; continue
Resync(p) ==
  [p |-> [p EXCEPT !.recv = Drop(@, 1), !.h_skipped = @ + 1], cont |-> TRUE]

\* A parser that treats an incomplete Picture like an unknown type byte.
IncompletePictureDrop(p) == Resync(p)

\* A parser that shows the part of a Picture that has arrived.
IncompletePictureShow(p) ==
  [p |-> Redraw([p EXCEPT !.last_peer_w = p.recv[2],
                          !.last_peer_h = p.recv[3]]),
   cont |-> FALSE]

\* "Incomplete picture packet, wait for more data": break
IncompletePicture(p) == [p |-> p, cont |-> FALSE]

\* "If we processed a packet, remove it from buffer"
Consume(p, packet_size) ==
  IF packet_size > 0 /\ Len(p.recv) >= packet_size
  THEN [p |-> [p EXCEPT !.recv = Drop(@, packet_size)], cont |-> TRUE]
  ELSE [p |-> p, cont |-> FALSE]

\* One pass through the loop body, entered with recv_len >= 3.
ParseStep(p) ==
  LET type == p.recv[1]
      p_w == p.recv[2]
      p_h == p.recv[3]
  IN IF type = CH_C
     THEN Consume(HandleConfig(p, p_w, p_h), 3)
     ELSE IF type = CH_P
     THEN IF Len(p.recv) >= 3 + p_w * p_h
          THEN Consume(HandlePicture(p, p_w, p_h), 3 + p_w * p_h)
          ELSE IncompletePicture(p)
     ELSE Resync(p)

\* A parser that handles one packet per read.
ParseOnce(p) == IF Len(p.recv) < 3 THEN p ELSE ParseStep(p).p

RECURSIVE ParseLoop(_)
ParseLoop(p) ==
  IF Len(p.recv) < 3 THEN p
  ELSE LET r == ParseStep(p)
       IN IF r.cont THEN ParseLoop(r.p) ELSE r.p


(***************************************************************************)
(* The latest-frame slot of a device camera (global_cam_context->          *)
(* currentFrame) as the capture callback fills it: width, height, the size *)
(* in bytes of the block pixels points to (0: pixels == NULL), the number  *)
(* of mallocs, and the number of bytes the last memcpy wrote.  A delivered *)
(* frame g has a width, a height and a number of bytes per row.            *)
(***************************************************************************)
Slot0 == [width |-> 0, height |-> 0, size |-> 0, mallocs |-> 0, copied |-> 0]

\* A callback that fits the slot to every frame it gets.
SlotStoreRealloc(slot, g) ==
  [width |-> g.width, height |-> g.height,
   size |-> g.height * g.bytesPerRow,
   mallocs |-> slot.mallocs + 1,
   copied |-> g.height * g.bytesPerRow]

\* if (f->pixels == NULL) { width, height, malloc(height * bytesPerRow) }
\* memcpy(f->pixels, baseAddress, height * bytesPerRow)
SlotStore(slot, g) ==
  IF slot.mallocs = 0
  THEN [width |-> g.width, height |-> g.height,
        size |-> g.height * g.bytesPerRow,
        mallocs |-> 1,
        copied |-> g.height * g.bytesPerRow]
  ELSE [slot EXCEPT !.copied = g.height * g.bytesPerRow]

\* The frames a capture device yields: 640 x 480 BGRA, the same with padded
\* rows, and the geometry after a change of format, smaller and larger.
FrameGeoms ==
  {[width |-> 640, height |-> 480, bytesPerRow |-> 2560],
   [width |-> 640, height |-> 480, bytesPerRow |-> 2624],
   [width |-> 320, height |-> 240, bytesPerRow |-> 1280],
   [width |-> 1280, height |-> 720, bytesPerRow |-> 5120]}

\* The frame the model's first delivery carries where geometry plays no part.
CamGeom == [width |-> CAM_W, height |-> CAM_H, bytesPerRow |-> CAM_W * 4]

(***************************************************************************)
(* The process at the start of main.  cfg gives what the command line and  *)
(* the environment fix: mode, role, camera kind, whether stdin is a        *)
(* terminal, whether the window-size query works, the terminal's size.     *)
(***************************************************************************)
P0(cfg) ==
  [pc |-> "main",
   mode |-> cfg.mode, role |-> cfg.role, camera |-> cfg.camera,
   isatty |-> cfg.isatty, winsz_ok |-> cfg.winsz_ok,
   tty_cols |-> cfg.cols, tty_rows |-> cfg.rows,
   \* struct editorConfig E
   screencols |-> 0, screenrows |-> 0, rawmode |-> FALSE,
   statusmsg |-> "", view_mode |-> "pip",
   \* the terminal and the C runtime
   termios |-> "orig", cursor |-> "shown", atexit |-> FALSE,
   sigwinch |-> FALSE, exitcode |-> -1,
   heap |-> {}, fds |-> {},
   \* the density ramp: E.density_arg, the locale, E.density_glyphs
   density_arg |-> "", density_custom |-> <<>>, lang_utf8 |-> FALSE,
   density_glyphs |-> <<>>,
   \* locals of runNetworkMode
   my_w |-> 0, my_h |-> 0, peer_w |-> 0, peer_h |-> 0,
   recv |-> <<>>,
   last_peer_w |-> 0, last_peer_h |-> 0, last_peer_pixels |-> <<>>,
   \* the byte in front of the last_peer_pixels block on the heap
   heap_byte |-> 0,
   now |-> 0, wait_ms |-> 0, next_frame_time |-> 0,
   rd_stdin |-> FALSE, rd_sock |-> FALSE,
   \* a signal handler has run while the process was blocked in select
   eintr |-> FALSE,
   \* the camera: the dummy source's counter; the latest-frame slot of a
   \* device (pixels allocated, their content), its mutex, the capture
   \* callback's position, the frame the main thread got from cameraGetFrame
   frame_counter |-> 0, cam_ready |-> FALSE, cam_fill |-> 0,
   slot |-> Slot0,
   mutex |-> "free", cb_pc |-> "idle", borrowed |-> FALSE, reading |-> FALSE,
   \* history
   h_decoded |-> <<>>, h_skipped |-> 0, h_redraws |-> 0,
   h_rawcount |-> 0, h_pics |-> 0, h_confs |-> 0,
   h_sendAt |-> -1, h_mingap |-> -1,
   h_winarm |-> FALSE, h_win0 |-> -1, h_wincnt |-> 0,
   h_ctrlc |-> "", h_late |-> FALSE,
   h_eofread |-> FALSE, h_unclosed |-> {},
   h_fresh |-> FALSE, h_lastconf |-> <<>>, h_confsent |-> <<>>,
   h_pic |-> [hdr |-> <<>>, peer |-> <<0, 0>>, wire |-> 0],
   h_drawn |-> [kind |-> "none"],
   h_frame |-> [owe |-> 0, hdr |-> <<>>, bad |-> FALSE]]

Off == [P0([mode |-> "network", role |-> "server", camera |-> "device",
            isatty |-> TRUE, winsz_ok |-> TRUE, cols |-> 0, rows |-> 0])
        EXCEPT !.pc = "off"]

Ended(p) == p.pc \in {"exited", "killed"}
Live(p) == p.pc \notin {"exited", "killed", "off"}

(***************************************************************************)
(* A step of process s to the record q.  Closing the session socket, by    *)
(* close() or by the kernel when the process ends, is what the other side  *)
(* reads as end of file.                                                   *)
(***************************************************************************)
Step(s, q) ==
  /\ P' = [P EXCEPT ![s] = q]
  /\ eof' = [eof EXCEPT ![Other(s)] =
               @ \/ ("sockfd" \in P[s].fds /\ "sockfd" \notin q.fds)]

(***************************************************************************)
(* disableRawMode, editorAtExit and exit(): the at-exit hook runs only if  *)
(* enableRawMode registered it; then the kernel closes what is still open. *)
(***************************************************************************)
DisableRawMode(p) ==
  IF p.rawmode THEN [p EXCEPT !.termios = "orig", !.rawmode = FALSE] ELSE p

EditorAtExit(p) == [DisableRawMode(p) EXCEPT !.cursor = "shown"]

Exit(p, code) ==
  LET q == IF p.atexit THEN EditorAtExit(p) ELSE p
  IN [q EXCEPT !.pc = "exited", !.exitcode = code,
               !.h_unclosed = q.fds, !.fds = {}]

(***************************************************************************)
(* updateWindowSize / handleSigWinCh: usable rows are rows - 1.            *)
(***************************************************************************)
UpdateWindowSize(p) ==
  IF p.winsz_ok
  THEN [p EXCEPT !.screencols = p.tty_cols, !.screenrows = p.tty_rows - 1]
  ELSE Exit(p, 1)

(***************************************************************************)
(* enableRawMode.  main ignores its return value.                          *)
(***************************************************************************)
EnableRawMode(p, tcget_ok, tcset_ok) ==
  IF p.rawmode THEN p
  ELSE IF ~p.isatty THEN p
  ELSE LET q == [p EXCEPT !.atexit = TRUE]
       IN IF ~tcget_ok \/ ~tcset_ok THEN q
          ELSE [q EXCEPT !.termios = "raw", !.rawmode = TRUE,
                         !.h_rawcount = @ + 1]

(***************************************************************************)
(* main up to the loops.                                                   *)
(***************************************************************************)
\* initEditor: updateWindowSize, signal(SIGWINCH, handleSigWinCh)
Start(s) ==
  /\ P[s].pc = "main"
  /\ LET q == UpdateWindowSize(P[s])
     IN Step(s, IF Ended(q) THEN q
                ELSE [q EXCEPT !.pc = "raw", !.sigwinch = TRUE])
  /\ UNCHANGED <<clock, chan, stdin, env, call>>

\* initTerminal(); enableRawMode(STDIN_FILENO);
RawMode(s) ==
  /\ P[s].pc = "raw"
  /\ \E tcget_ok \in BOOLEAN, tcset_ok \in BOOLEAN :
       Step(s, [EnableRawMode(P[s], tcget_ok, tcset_ok) EXCEPT !.pc = "cam"])
  /\ UNCHANGED <<clock, chan, stdin, env, call>>

\* resolveDensityConfig, cameraInit (initDummyCamera mallocs the frame; a
\* device that is not found is fatal), cameraStart, editorSetStatusMessage
CamSetup(s) ==
  /\ P[s].pc = "cam"
  /\ \E found \in BOOLEAN :
       LET p == P[s]
           q == IF p.camera = "dummy"
                THEN [p EXCEPT !.heap = @ \cup {"cam_pixels"}]
                ELSE p
           next == IF p.mode = "mirror" THEN "mirror"
                   ELSE IF p.role = "server" THEN "listen" ELSE "connect"
       IN /\ p.camera = "dummy" => found
          /\ Step(s, IF ~found THEN Exit(p, 1)
                     ELSE [q EXCEPT !.pc = next, !.statusmsg = "HELP",
                                    !.density_glyphs =
                                      ResolveDensityConfig(p.density_arg,
                                        p.density_custom, p.lang_utf8)])
  /\ UNCHANGED <<clock, chan, stdin, env, call>>

(***************************************************************************)
(* tcpListen.                                                              *)
(***************************************************************************)
\* socket, setsockopt, bind, listen: any failure is exit(EXIT_FAILURE)
ListenOpen(s) ==
  /\ P[s].pc = "listen"
  /\ \E ok \in BOOLEAN :
       Step(s, IF ok THEN [P[s] EXCEPT !.pc = "accept",
                                       !.fds = @ \cup {"server_fd"}]
               ELSE Exit(P[s], 1))
  /\ UNCHANGED <<clock, chan, stdin, env, call>>

\* One pass of "while(1) { select(stdin, server_fd) ... }" in which select
\* reports something.
Accept(s) ==
  /\ P[s].pc = "accept"
  /\ LET p == P[s]
         key == stdin[s] # <<>>
         conn == env[s].conn = "pending"
     IN /\ key \/ conn
        /\ stdin' = [stdin EXCEPT ![s] = IF key THEN Tail(@) ELSE @]
        /\ IF key /\ Head(stdin[s]) = CTRL_C
           THEN /\ Step(s, Exit([p EXCEPT !.h_ctrlc = "accept"], 0))
                /\ UNCHANGED env
           ELSE IF conn
           THEN \E ok \in BOOLEAN :
                  /\ Step(s, IF ok THEN [p EXCEPT !.pc = "sess_init",
                                                  !.fds = @ \cup {"sockfd"}]
                             ELSE Exit(p, 1))
                  /\ env' = [env EXCEPT ![s].conn = "taken"]
           ELSE Step(s, p) /\ UNCHANGED env
  /\ UNCHANGED <<clock, chan, call>>

(***************************************************************************)
(* tcpConnect.                                                             *)
(***************************************************************************)
\* socket, inet_pton, fcntl(O_NONBLOCK), connect: a failure other than
\* EINPROGRESS is exit(EXIT_FAILURE); ret == 0 is "connected immediately".
ConnectStart(s) ==
  /\ P[s].pc = "connect"
  /\ \E res \in {"fail", "now", "inprogress"} :
       LET p == [P[s] EXCEPT !.fds = @ \cup {"sockfd"}]
           o == Other(s)
       IN /\ res = "now" =>
               P[o].pc = "off" \/ "server_fd" \in P[o].fds
          /\ Step(s, CASE res = "fail" -> Exit(P[s], 1)
                       [] res = "now" -> [p EXCEPT !.pc = "sess_init"]
                       [] OTHER -> [p EXCEPT !.pc = "connwait"])
          /\ env' = IF res = "now"
                    THEN [env EXCEPT ![s].conn = "ok", ![o].conn = "pending"]
                    ELSE env
  /\ UNCHANGED <<clock, chan, stdin, call>>

\* One pass of "while(1) { select(stdin; sock writable) ... }" in which
\* select reports something.
ConnWait(s) ==
  /\ P[s].pc = "connwait"
  /\ LET p == P[s]
         key == stdin[s] # <<>>
         done == env[s].conn \in {"ok", "err"}
     IN /\ key \/ done
        /\ stdin' = [stdin EXCEPT ![s] = IF key THEN Tail(@) ELSE @]
        /\ IF key /\ Head(stdin[s]) = CTRL_C
           THEN Step(s, Exit([p EXCEPT !.h_ctrlc = "connwait"], 0))
           ELSE IF done
           THEN Step(s, IF env[s].conn = "ok"
                        THEN [p EXCEPT !.pc = "sess_init"]
                        ELSE Exit(p, 1))
           ELSE Step(s, p)
  /\ UNCHANGED <<clock, chan, env, call>>

(***************************************************************************)
(* runNetworkMode.                                                         *)
(***************************************************************************)
\* {'C', (unsigned char)my_w, (unsigned char)my_h}
ConfigPacket(w, h) == <<CH_C, U8(w), U8(h)>>

Clamp255(x) == IF x > DIM_MAX THEN DIM_MAX ELSE x

\* fcntl(O_NONBLOCK), initTerminal, the three mallocs, my_w / my_h, the
\* 80x60 default, the initial Config, next_frame_time
SessInit(s) ==
  /\ P[s].pc = "sess_init"
  /\ LET p == P[s]
         w == Clamp255(p.screencols)
         h == Clamp255(p.screenrows)
         pkt == ConfigPacket(w, h)
         o == Other(s)
         ch == SockWrite(chan[o], pkt, 3)
     IN /\ Step(s, [Wrote(p, chan[o], ch) EXCEPT !.pc = "top",
                      !.heap = @ \cup {"net_buffer", "recv_buffer",
                                       "last_peer_pixels"},
                      !.recv = <<>>,
                      !.last_peer_w = 0, !.last_peer_h = 0,
                      !.my_w = w, !.my_h = h,
                      !.peer_w = PEER_W0, !.peer_h = PEER_H0,
                      !.next_frame_time = clock,
                      !.h_confs = @ + 1, !.h_lastconf = pkt,
                      !.h_confsent = Written(chan[o], ch)])
        /\ chan' = [chan EXCEPT ![o] = ch]
  /\ UNCHANGED <<clock, stdin, env, call>>

\* "Check for Window Resize": compares E.screencols / E.screenrows with
\* my_w / my_h, then clamps, stores and notifies.
ResizeSeen(p) == p.screencols # p.my_w \/ p.screenrows # p.my_h

\* Top of the loop body: now, wait_ms, the resize check.
Top(s) ==
  /\ P[s].pc = "top"
  /\ LET p == [P[s] EXCEPT !.now = clock,
                           !.wait_ms = Max(0, P[s].next_frame_time - clock),
                           !.h_fresh = FALSE]
         w == Clamp255(p.screencols)
         h == Clamp255(p.screenrows)
         o == Other(s)
         ch == SockWrite(chan[o], ConfigPacket(w, h), 3)
     IN IF ResizeSeen(p)
        THEN /\ p.h_confs < MaxConfs
             /\ Step(s, [Wrote(p, chan[o], ch) EXCEPT
                           !.pc = "select", !.my_w = w, !.my_h = h,
                           !.h_confs = @ + 1,
                           !.h_lastconf = ConfigPacket(w, h),
                           !.h_confsent = Written(chan[o], ch)])
             /\ chan' = [chan EXCEPT ![o] = ch]
        ELSE /\ Step(s, [p EXCEPT !.pc = "select"])
             /\ UNCHANGED chan
  /\ UNCHANGED <<clock, stdin, env, call>>

\* select(stdin, sockfd; timeout wait_ms) returns: something is readable,
\* the timeout has run out, or a signal handler has interrupted it (the
\* result is then -1 and neither descriptor is looked at).
Select(s) ==
  /\ P[s].pc = "select"
  /\ LET p == P[s]
         key == stdin[s] # <<>>
         net == chan[s] # <<>> \/ eof[s]
     IN /\ p.eintr \/ key \/ net \/ clock >= p.now + p.wait_ms
        /\ Step(s, [p EXCEPT !.pc = "stdin", !.eintr = FALSE,
                             !.rd_stdin = ~p.eintr /\ key,
                             !.rd_sock = ~p.eintr /\ net])
  /\ UNCHANGED <<clock, chan, stdin, env, call>>

\* "Handle User Input"
ToggleView(p) ==
  LET q == [p EXCEPT !.view_mode = IF @ = "pip" THEN "split" ELSE "pip"]
  IN IF q.last_peer_w > 0 THEN Redraw(q) ELSE q

\* A loop that takes Ctrl-C for a key without a binding.
OnKeyNoBreak(p, c) ==
  IF c = KEY_v \/ c = KEY_V THEN [ToggleView(p) EXCEPT !.pc = "recv"]
  ELSE [p EXCEPT !.pc = "recv"]

OnKey(p, c) ==
  IF c = CTRL_C
  THEN [p EXCEPT !.pc = "cleanup"]
  ELSE IF c = KEY_v \/ c = KEY_V THEN [ToggleView(p) EXCEPT !.pc = "recv"]
  ELSE [p EXCEPT !.pc = "recv"]

\* History: byte c was read from stdin in the state named where.
NoteKey(p, c, where) ==
  IF c = CTRL_C THEN [p EXCEPT !.h_ctrlc = where] ELSE p

StdinStep(s) ==
  /\ P[s].pc = "stdin"
  /\ IF P[s].rd_stdin
     THEN /\ Step(s, OnKey(NoteKey(P[s], Head(stdin[s]), "session"),
                          Head(stdin[s])))
          /\ stdin' = [stdin EXCEPT ![s] = Tail(@)]
     ELSE /\ Step(s, [P[s] EXCEPT !.pc = "recv"])
          /\ UNCHANGED stdin
  /\ UNCHANGED <<clock, chan, env, call>>

\* "Handle Network Receive": n bytes arrive; n == 0 is end of file.
\* A loop that takes end of file for "nothing to read".
OnReadNoEof(p, bytes) ==
  [ParseLoop([p EXCEPT !.recv = @ \o bytes]) EXCEPT !.pc = "send"]

OnRead(p, bytes) ==
  IF Len(bytes) = 0
  THEN [p EXCEPT !.pc = "cleanup", !.statusmsg = "Connection closed by peer."]
  ELSE [ParseLoop([p EXCEPT !.recv = @ \o bytes]) EXCEPT !.pc = "send"]

\* History: a read of the session socket returned n.
NoteRead(p, n) ==
  [p EXCEPT !.h_eofread = @ \/ n = 0, !.h_late = @ \/ p.h_ctrlc # ""]

\* read(sockfd, recv_buffer + recv_len, 131000 - recv_len): the most a read
\* can return is what was asked for and what is in flight
ReadMost(s) == Min(RECV_MAX - Len(P[s].recv), Len(chan[s]))

\* the read has returned n
RecvRead(s, n) ==
  /\ Step(s, OnRead(NoteRead(P[s], n), Take(chan[s], n)))
  /\ chan' = [chan EXCEPT ![s] = Drop(@, n)]

RecvStep(s) ==
  /\ P[s].pc = "recv"
  /\ IF P[s].rd_sock
     THEN \E n \in (IF ReadMost(s) >= 1 THEN 1 .. ReadMost(s) ELSE {0}) :
            RecvRead(s, n)
     ELSE /\ Step(s, [P[s] EXCEPT !.pc = "send"])
          /\ UNCHANGED chan
  /\ UNCHANGED <<clock, stdin, env, call>>

\* The encoder: nearest-neighbour resample of the frame to w x h luminance
\* bytes, row-major.
PicPixel(p, w, h, i) ==
  LET x == (i - 1) % w
      y == (i - 1) \div w
  IN CamLuma(p, (x * CAM_W) \div w, (y * CAM_H) \div h)

\* net_buffer[0 .. size-1]
PicPayload(p, w, h) == [i \in 1 .. w * h |-> PicPixel(p, w, h, i)]

\* write(sockfd, header, 3); write(sockfd, net_buffer, size);
WritePicture(ch, header, payload, size) ==
  SockWrite(SockWrite(ch, header, 3), payload, size)

\* "Send Frame (Rate Limited)"
FrameDue(now, next_frame_time) == now >= next_frame_time

\* A frame period that is one ms short.
NextFrameTimeShort(now) == now + FRAME_MS - 1

NextFrameTime(now) == now + FRAME_MS

\* History of a Picture send gated at time now: the smallest gap between
\* consecutive sends, and the number of sends in the one-second window that
\* opens at the first send after the observer armed it.
NoteSend(p, now) ==
  [p EXCEPT
     !.h_pics = @ + 1,
     !.h_late = @ \/ p.h_ctrlc # "",
     !.h_mingap = IF p.h_sendAt < 0 THEN @
                  ELSE IF @ < 0 THEN now - p.h_sendAt
                  ELSE Min(@, now - p.h_sendAt),
     !.h_sendAt = now,
     !.h_win0 = IF @ < 0 /\ p.h_winarm THEN now ELSE @,
     !.h_wincnt = IF p.h_win0 < 0 THEN (IF p.h_winarm THEN 1 ELSE 0)
                  ELSE IF now < p.h_win0 + MS_PER_SEC THEN @ + 1 ELSE @]

SendStep(s) ==
  /\ P[s].pc = "send"
  /\ LET p == [P[s] EXCEPT !.now = clock, !.pc = "top"]
         o == Other(s)
     IN IF FrameDue(p.now, p.next_frame_time)
        THEN IF CamHasFrame(p)
             THEN LET q == CamGetFrame(p)
                      w == q.peer_w
                      h == q.peer_h
                      header == <<CH_P, U8(w), U8(h)>>
                      ch == WritePicture(chan[o], header,
                                         PicPayload(q, w, h), w * h)
                  IN /\ Step(s, [NoteSend(Wrote(q, chan[o], ch), p.now)
                                EXCEPT !.next_frame_time =
                                         NextFrameTime(p.now),
                                       !.h_pic =
                                         [hdr |-> header, peer |-> <<w, h>>,
                                          wire |-> Len(ch) - Len(chan[o])]])
                     /\ chan' = [chan EXCEPT ![o] = ch]
             ELSE /\ Step(s, [p EXCEPT
                           !.next_frame_time = NextFrameTime(p.now)])
                  /\ UNCHANGED chan
        ELSE /\ Step(s, p)
             /\ UNCHANGED chan
  /\ UNCHANGED <<clock, stdin, env, call>>

\* free(net_buffer); free(recv_buffer); free(last_peer_pixels); close(sockfd)
Cleanup(s) ==
  /\ P[s].pc = "cleanup"
  /\ Step(s, [P[s] EXCEPT !.pc = "ret",
                !.heap = @ \ {"net_buffer", "recv_buffer", "last_peer_pixels"},
                !.fds = @ \ {"sockfd"}])
  /\ UNCHANGED <<clock, chan, stdin, env, call>>

\* "return 0;" in main: the C runtime calls exit(0)
Return(s) ==
  /\ P[s].pc = "ret"
  /\ Step(s, Exit(P[s], 0))
  /\ UNCHANGED <<clock, chan, stdin, env, call>>

(***************************************************************************)
(* runMirrorMode: one pass of the loop.                                    *)
(***************************************************************************)
MirrorFrame(p) ==
  IF ~CamHasFrame(p) THEN p
  ELSE LET q == CamGetFrame(p)
       IN IF q.screenrows <= 0 \/ q.screencols <= 0 THEN q
          ELSE [q EXCEPT !.cursor = "hidden",
                         !.h_drawn = [kind |-> "mirror",
                                      cols |-> q.screencols,
                                      rows |-> q.screenrows,
                                      fc |-> q.frame_counter]]

MirrorIter(s) ==
  /\ P[s].pc = "mirror"
  /\ LET p == P[s]
         key == stdin[s] # <<>>
     IN /\ key \/ p.frame_counter < MaxFrames
        /\ stdin' = [stdin EXCEPT ![s] = IF key THEN Tail(@) ELSE @]
        /\ IF key /\ Head(stdin[s]) = CTRL_C
           THEN Step(s, [p EXCEPT !.pc = "ret", !.h_ctrlc = "mirror"])
           ELSE Step(s, MirrorFrame(p))
  /\ UNCHANGED <<clock, chan, env, call>>

(***************************************************************************)
(* The environment.                                                        *)
(***************************************************************************)
Scripted(s) == P[Other(s)].pc = "off"
Connected(s) == "sockfd" \in P[s].fds

\* What a scripted peer sends: three Configs (one with a zero dimension),
\* Pictures of at most two pixels whose payload bytes look like type bytes,
\* junk bytes that are no type byte.
ConfigPkts == {<<CH_C, 80, 40>>, <<CH_C, 40, 80>>, <<CH_C, 0, 40>>}
PayloadBytes == {CH_C, CH_P}
JunkBytes == {0, 88}

PicShapes == {<<0, 0>>, <<0, 1>>, <<1, 0>>, <<1, 1>>, <<2, 1>>, <<1, 2>>}

PicPkts ==
  UNION {{<<CH_P, d[1], d[2]>> \o px : px \in [1 .. d[1] * d[2] -> PayloadBytes]}
         : d \in PicShapes}

ValidPkts == ConfigPkts \cup PicPkts

Env0 == [conn |-> "none", sent |-> <<>>, pkts |-> <<>>, junk |-> 0,
         keys |-> 0, resizes |-> 0, rs_from |-> <<0, 0>>, rs_confs |-> 0]

\* Bytes of a scripted peer become readable before the loop starts or while
\* the process waits in select; what arrives later in an iteration is seen
\* by the next select, and a read takes any non-empty prefix of what is in
\* flight.
Arrival(s) == P[s].pc \in {"sess_init", "select"}

\* A client reaches the listening socket of a scripted server, or a scripted
\* client connects.
EnvConn(s) ==
  /\ Scripted(s)
  /\ env[s].conn = "none"
  /\ \/ P[s].pc = "accept" /\ env' = [env EXCEPT ![s].conn = "pending"]
     \/ /\ P[s].pc = "connwait"
        /\ \E r \in {"ok", "err"} : env' = [env EXCEPT ![s].conn = r]
  /\ UNCHANGED <<clock, chan, eof, stdin, P, call>>

\* The scripted peer writes one packet out of pkts.
EnvSend(s, pkts) ==
  /\ Scripted(s) /\ Connected(s) /\ ~eof[s]
  /\ Arrival(s)
  /\ Len(env[s].pkts) < MaxPkts
  /\ \E pkt \in pkts :
       /\ chan' = [chan EXCEPT ![s] = @ \o pkt]
       /\ env' = [env EXCEPT ![s].sent = @ \o pkt,
                             ![s].pkts = Append(@, pkt)]
  /\ UNCHANGED <<clock, eof, stdin, P, call>>

\* The scripted peer writes one valid packet.
EnvPacket(s) == EnvSend(s, ValidPkts)

\* One byte that starts no packet gets into the stream (once).
EnvJunk(s) ==
  /\ Scripted(s) /\ Connected(s) /\ ~eof[s]
  /\ Arrival(s)
  /\ env[s].junk = 0
  /\ \E b \in JunkBytes :
       /\ chan' = [chan EXCEPT ![s] = Append(@, b)]
       /\ env' = [env EXCEPT ![s].sent = Append(@, b),
                             ![s].junk = Len(env[s].sent) + 1]
  /\ UNCHANGED <<clock, eof, stdin, P, call>>

\* The scripted peer closes its end.
EnvClose(s) ==
  /\ Scripted(s) /\ Connected(s) /\ ~eof[s]
  /\ eof' = [eof EXCEPT ![s] = TRUE]
  /\ UNCHANGED <<clock, chan, stdin, P, env, call>>

\* The scripted peer reads what was written to it.
EnvDrain(s) ==
  /\ Scripted(s)
  /\ chan[Other(s)] # <<>>
  /\ chan' = [chan EXCEPT ![Other(s)] = <<>>]
  /\ UNCHANGED <<clock, eof, stdin, P, env, call>>

\* A key is typed: Ctrl-C, 'v' ('V' takes the same branch), or 'x', which
\* has no binding.
Keys == {CTRL_C, KEY_v, 120}

Key(s) ==
  /\ Live(P[s])
  /\ env[s].keys < MaxKeys
  /\ \E b \in Keys : stdin' = [stdin EXCEPT ![s] = Append(@, b)]
  /\ env' = [env EXCEPT ![s].keys = @ + 1]
  /\ UNCHANGED <<clock, chan, eof, P, call>>

\* The capture callback delivers the first frame of a device camera: it
\* allocates the slot's pixel buffer and copies the frame in.
CamDeliver(s) ==
  /\ P[s].camera = "device" /\ ~P[s].cam_ready
  /\ P[s].pc \notin {"main", "raw", "cam", "exited", "killed", "off"}
  /\ \E v \in {0, CH_C} :
       P' = [P EXCEPT ![s].cam_ready = TRUE, ![s].cam_fill = v,
                      ![s].heap = @ \cup {"cam_pixels"},
                      ![s].slot = SlotStore(@, CamGeom)]
  /\ UNCHANGED <<clock, chan, eof, stdin, env, call>>

\* Time passes.
TickBy(d, limit) ==
  /\ clock + d <= limit
  /\ clock' = clock + d
  /\ UNCHANGED <<chan, eof, stdin, P, env, call>>

Tick == TickBy(1, MaxClock)

\* A frame period passes.
TickFrame == TickBy(FRAME_MS, MaxClock)

\* A millisecond passes while process s is blocked in select; select returns
\* at most MaxLag ms after its timeout.
TickSelect(s) ==
  /\ P[s].pc = "select"
  /\ clock < P[s].now + P[s].wait_ms + MaxLag
  /\ TickBy(1, RateHorizon)

\* A terminating signal (SIGTERM, SIGKILL, SIGSEGV, SIGABRT from abort()):
\* no handler is installed for any of them, so no at-exit hook runs.
Kill(s) ==
  /\ Live(P[s])
  /\ Step(s, [P[s] EXCEPT !.pc = "killed", !.exitcode = 128,
                          !.h_unclosed = P[s].fds, !.fds = {}])
  /\ UNCHANGED <<clock, chan, stdin, env, call>>

(***************************************************************************)
(* Initial states: the processes named by cfgs start main; every other     *)
(* side is a scripted peer.                                                *)
(***************************************************************************)
InitWith(cfgs) ==
  /\ clock = 0
  /\ chan = [s \in Side |-> <<>>]
  /\ eof = [s \in Side |-> FALSE]
  /\ stdin = [s \in Side |-> <<>>]
  /\ env = [s \in Side |-> Env0]
  /\ P = [s \in Side |-> IF s \in DOMAIN cfgs THEN P0(cfgs[s]) ELSE Off]
  /\ call = NoCall

Cfg(mode, role, camera, isatty, winsz_ok, cols, rows) ==
  [mode |-> mode, role |-> role, camera |-> camera, isatty |-> isatty,
   winsz_ok |-> winsz_ok, cols |-> cols, rows |-> rows]

\* main up to the session loop, as a server
ServerUp(s) ==
  \/ Start(s) \/ RawMode(s) \/ CamSetup(s) \/ ListenOpen(s) \/ Accept(s)
  \/ SessInit(s)

\* the session loop without its exits
Loop(s) == Top(s) \/ Select(s) \/ StdinStep(s) \/ RecvStep(s) \/ SendStep(s)

(***************************************************************************)
(* SpecChunk: a server with a device camera that has not delivered yet     *)
(* receives a stream of valid packets in arbitrary chunks.                 *)
(***************************************************************************)
InitChunk ==
  InitWith([srv |-> Cfg("network", "server", "device", TRUE, TRUE, 80, 25)])

NextChunk ==
  \/ ServerUp("srv") \/ Loop("srv")
  \/ EnvConn("srv") \/ EnvPacket("srv")

SpecChunk == InitChunk /\ [][NextChunk]_vars

\* What the parser has decoded and what it holds.
ParserView(p) ==
  <<p.h_decoded, p.peer_w, p.peer_h,
    p.last_peer_w, p.last_peer_h, p.last_peer_pixels, p.recv>>

\* The parser's state as runNetworkMode sets it up before the loop.
FreshParser(p) ==
  [p EXCEPT !.recv = <<>>, !.peer_w = PEER_W0, !.peer_h = PEER_H0,
            !.last_peer_w = 0, !.last_peer_h = 0, !.last_peer_pixels = <<>>,
            !.h_decoded = <<>>]

\* The parser after one read that delivers the whole of stream.
SingleRead(p, stream) == ParseLoop([FreshParser(p) EXCEPT !.recv = stream])

InLoop(p) == p.pc \in {"top", "select", "stdin", "recv", "send"}

\* The part of the scripted stream that has been read so far.
Delivered(s) == Take(env[s].sent, Len(env[s].sent) - Len(chan[s]))

\* C1: chunking invariance of the receive parser.  However a stream of
\* valid Config and Picture packets has been split into reads, after every
\* read the parser has decoded the same packets, and holds the same
\* peer_render, last_peer and accumulator, as after one read of all the
\* bytes delivered so far; once the whole stream is delivered the decoded
\* packets are exactly the packets sent.
ChunkInvariance ==
  LET p == P["srv"]
  IN InLoop(p) =>
       /\ ParserView(p) = ParserView(SingleRead(p, Delivered("srv")))
       /\ chan["srv"] = <<>> => /\ p.h_decoded = env["srv"].pkts
                               /\ p.recv = <<>>

\* C1 witness: a Config has been decoded and the read that followed ended
\* inside the payload of a two-pixel Picture whose first payload byte is 'C'.
ChunkSplitSeen ==
  /\ P["srv"].pc = "send"
  /\ P["srv"].h_decoded = <<<<CH_C, 80, 40>>>>
  /\ P["srv"].recv = <<CH_P, 2, 1, CH_C>>
  /\ chan["srv"] = <<CH_P>>

(***************************************************************************)
(* SpecResync: the stream of the scripted peer holds one byte that is no   *)
(* type byte, before a packet or between two packets.                      *)
(***************************************************************************)
ResyncPkts ==
  {<<CH_C, 80, 40>>, <<CH_C, 0, 40>>, <<CH_P, 0, 0>>,
   <<CH_P, 1, 1, CH_C>>, <<CH_P, 2, 1, CH_C, CH_P>>}

EnvResyncPacket(s) == EnvSend(s, ResyncPkts)

NextResync ==
  \/ ServerUp("srv") \/ Loop("srv")
  \/ EnvConn("srv") \/ EnvResyncPacket("srv") \/ EnvJunk("srv")

SpecResync == InitChunk /\ [][NextResync]_vars

\* The scripted stream without its junk byte.
CleanStream(e) ==
  IF e.junk = 0 THEN e.sent
  ELSE SubSeq(e.sent, 1, e.junk - 1) \o SubSeq(e.sent, e.junk + 1, Len(e.sent))

\* C2: parser resync.  When one byte that is neither 'C' nor 'P' stands
\* before a valid packet or between two valid packets, and all of the
\* stream has been read, the parser has skipped exactly one byte and has
\* decoded every packet as it would have without that byte; no byte is
\* ever skipped in a stream without junk; and an accumulator that was fed
\* 0x58, 'C', 0x50, 0x28 ends empty with peer_render = (80, 40).
ResyncSkipsOne ==
  LET p == P["srv"]
      e == env["srv"]
  IN InLoop(p) =>
       /\ p.h_skipped <= (IF e.junk > 0 THEN 1 ELSE 0)
       /\ (e.junk > 0 /\ Len(e.sent) > e.junk /\ chan["srv"] = <<>>) =>
            /\ p.h_skipped = 1
            /\ p.h_decoded = e.pkts
            /\ ParserView(p) = ParserView(SingleRead(p, CleanStream(e)))
       /\ (e.sent = <<88, CH_C, 80, 40>> /\ chan["srv"] = <<>>) =>
            /\ p.recv = <<>>
            /\ p.peer_w = 80 /\ p.peer_h = 40

\* C2 witness: the stream X, 'C', 0x50, 0x28 has been read and parsed.
ResyncExampleSeen ==
  /\ P["srv"].pc = "send"
  /\ env["srv"].sent = <<88, CH_C, 80, 40>>
  /\ chan["srv"] = <<>>
  /\ P["srv"].h_skipped = 1
  /\ P["srv"].h_decoded = <<<<CH_C, 80, 40>>>>

(***************************************************************************)
(* The latest-frame slot of a device camera, statement by statement: the   *)
(* capture callback on the capture thread, and cameraGetFrame followed by  *)
(* the rasterizer on the main thread (the mirror loop).                    *)
(***************************************************************************)
CamRunning(p) == p.camera = "device" /\ p.pc \notin {"main", "raw", "cam"} /\ Live(p)

\* pthread_mutex_lock(&global_cam_context->lock) in the callback
CbLock(s) ==
  /\ CamRunning(P[s])
  /\ P[s].cb_pc = "idle" /\ P[s].mutex = "free"
  /\ P' = [P EXCEPT ![s].mutex = "cb", ![s].cb_pc = "locked"]
  /\ UNCHANGED <<clock, chan, eof, stdin, env, call>>

\* if (f->pixels == NULL) { ... malloc }; memcpy starts
CbCopy(s) ==
  /\ CamRunning(P[s])
  /\ P[s].cb_pc = "locked"
  /\ \E g \in FrameGeoms :
       P' = [P EXCEPT ![s].cb_pc = "copying",
                      ![s].heap = @ \cup {"cam_pixels"},
                      ![s].cam_ready = TRUE,
                      ![s].slot = SlotStore(@, g)]
  /\ UNCHANGED <<clock, chan, eof, stdin, env, call>>

\* memcpy ends; pthread_mutex_unlock
CbUnlock(s) ==
  /\ CamRunning(P[s])
  /\ P[s].cb_pc = "copying"
  /\ \E v \in {0, CH_C} :
       P' = [P EXCEPT ![s].cb_pc = "idle", ![s].mutex = "free",
                      ![s].cam_fill = v]
  /\ UNCHANGED <<clock, chan, eof, stdin, env, call>>

\* The key poll of the mirror loop, then the call of cameraGetFrame.
MirrorPoll(s) ==
  /\ P[s].pc = "mirror"
  /\ LET p == P[s]
         key == stdin[s] # <<>>
     IN /\ stdin' = [stdin EXCEPT ![s] = IF key THEN Tail(@) ELSE @]
        /\ IF key /\ Head(stdin[s]) = CTRL_C
           THEN Step(s, [p EXCEPT !.pc = "ret", !.h_ctrlc = "mirror"])
           ELSE Step(s, [p EXCEPT !.pc = "gf_lock"])
  /\ UNCHANGED <<clock, chan, env, call>>

\* cameraGetFrame: pthread_mutex_lock(&cam->lock)
GetFrameLock(s) ==
  /\ P[s].pc = "gf_lock" /\ P[s].mutex = "free"
  /\ Step(s, [P[s] EXCEPT !.mutex = "main", !.pc = "gf_check"])
  /\ UNCHANGED <<clock, chan, stdin, env, call>>

\* if (cam->currentFrame.pixels) { outFrame->pixels = ...pixels; }
GetFrameCheck(s) ==
  /\ P[s].pc = "gf_check"
  /\ Step(s, [P[s] EXCEPT !.borrowed = P[s].cam_ready, !.pc = "gf_unlock"])
  /\ UNCHANGED <<clock, chan, stdin, env, call>>

\* pthread_mutex_unlock(&cam->lock); return 1 or 0
GetFrameUnlock(s) ==
  /\ P[s].pc = "gf_unlock"
  /\ Step(s, [P[s] EXCEPT !.mutex = "free",
                          !.pc = IF P[s].borrowed THEN "render" ELSE "mirror"])
  /\ UNCHANGED <<clock, chan, stdin, env, call>>

\* renderBufferBGRA(&ab, frame.pixels, ...) starts reading the pixels,
\* unless the window is too small.
RenderBegin(s) ==
  /\ P[s].pc = "render"
  /\ Step(s, IF P[s].screenrows <= 0 \/ P[s].screencols <= 0
             THEN [P[s] EXCEPT !.pc = "mirror", !.borrowed = FALSE]
             ELSE [P[s] EXCEPT !.pc = "rendering", !.reading = TRUE,
                               !.cursor = "hidden"])
  /\ UNCHANGED <<clock, chan, stdin, env, call>>

\* the rasterizer is done; write(STDOUT_FILENO, ab.b, ab.len)
RenderEnd(s) ==
  /\ P[s].pc = "rendering"
  /\ Step(s, [P[s] EXCEPT !.pc = "mirror", !.reading = FALSE,
                          !.borrowed = FALSE])
  /\ UNCHANGED <<clock, chan, stdin, env, call>>

\* SpecSlot: a mirror-mode process with a device camera.
InitSlot ==
  InitWith([srv |-> Cfg("mirror", "server", "device", TRUE, TRUE, 80, 25)])

NextSlot ==
  \/ Start("srv") \/ RawMode("srv") \/ CamSetup("srv")
  \/ MirrorPoll("srv") \/ GetFrameLock("srv") \/ GetFrameCheck("srv")
  \/ GetFrameUnlock("srv") \/ RenderBegin("srv") \/ RenderEnd("srv")
  \/ CbLock("srv") \/ CbCopy("srv") \/ CbUnlock("srv")
  \/ Key("srv") \/ Return("srv")

SpecSlot == InitSlot /\ [][NextSlot]_vars

\* C3: reader/producer exclusion on the latest-frame slot.  The main thread
\* reads the pixels it got from cameraGetFrame only while it holds the slot
\* mutex, so the capture callback is never copying a frame into the slot
\* while the main thread reads it.
SlotExclusion ==
  /\ P["srv"].reading => P["srv"].mutex = "main"
  /\ ~(P["srv"].reading /\ P["srv"].cb_pc = "copying")

(***************************************************************************)
(* SpecSend: a server with the dummy camera sends Pictures to a scripted   *)
(* peer that asks for small pictures and reads its socket now and then.    *)
(***************************************************************************)
InitSend ==
  InitWith([srv |-> Cfg("network", "server", "dummy", TRUE, TRUE, 80, 25)])

SmallConfigs == {<<CH_C, 1, 1>>, <<CH_C, 2, 1>>}

EnvSmallConfig(s) == EnvSend(s, SmallConfigs)

NextSend ==
  \/ ServerUp("srv") \/ Loop("srv")
  \/ EnvConn("srv") \/ EnvSmallConfig("srv") \/ EnvDrain("srv")
  \/ TickFrame

SpecSend == InitSend /\ [][NextSend]_vars

\* C4: outgoing packets are whole.  Between two iterations of the session
\* loop the bytes put on the socket so far are a concatenation of complete
\* Config and Picture packets: no Picture lacks payload bytes, no header is
\* cut, and no byte stands where a type byte is due that is none.
OutgoingWhole ==
  P["srv"].pc = "top" =>
    /\ P["srv"].h_frame.owe = 0
    /\ P["srv"].h_frame.hdr = <<>>
    /\ ~P["srv"].h_frame.bad

(***************************************************************************)
(* SpecRate: a server with the dummy camera (a frame is always ready) runs *)
(* the session loop for more than a second; keys wake select early.        *)
(***************************************************************************)
\* One key without a binding is typed while the process is blocked in
\* select, within the first MaxClock ms.
WakeKey(s) ==
  /\ P[s].pc = "select"
  /\ env[s].keys = 0
  /\ clock < MaxClock
  /\ stdin' = [stdin EXCEPT ![s] = Append(@, 120)]
  /\ env' = [env EXCEPT ![s].keys = 1]
  /\ UNCHANGED <<clock, chan, eof, P, call>>

\* The observer arms a one-second window that will end within RateHorizon:
\* it opens at the next Picture send.
ArmWindow(s) ==
  /\ P[s].pc = "send"
  /\ ~P[s].h_winarm
  /\ clock + MS_PER_SEC <= RateHorizon
  /\ P' = [P EXCEPT ![s].h_winarm = TRUE]
  /\ UNCHANGED <<clock, chan, eof, stdin, env, call>>

NextRate ==
  \/ ServerUp("srv") \/ Loop("srv")
  \/ EnvConn("srv") \/ WakeKey("srv") \/ TickSelect("srv")
  \/ ArmWindow("srv")

SpecRate == InitSend /\ [][NextRate]_vars

\* C5: rate limit.  With a frame always ready and a clock that never goes
\* back, two consecutive Picture sends are at least 33 ms apart, and no
\* one-second window that opens at a send holds more than 31 sends.
RateLimit ==
  /\ P["srv"].h_mingap = -1 \/ P["srv"].h_mingap >= FRAME_MS
  /\ P["srv"].h_wincnt <= 31

\* C5 witness: a one-second window has passed in which 31 Pictures were
\* sent, two of them exactly 33 ms apart.
RateWindowFull ==
  /\ P["srv"].h_win0 >= 0
  /\ clock >= P["srv"].h_win0 + MS_PER_SEC
  /\ P["srv"].h_wincnt = 31
  /\ P["srv"].h_mingap = FRAME_MS

(***************************************************************************)
(* SpecLife: one process from the start of main to its end, in mirror mode *)
(* or against a scripted peer as server or client, with or without a       *)
(* terminal on stdin.  SpecLifeKill adds terminating signals.              *)
(***************************************************************************)
Proc(s) ==
  \/ Start(s) \/ RawMode(s) \/ CamSetup(s)
  \/ ListenOpen(s) \/ Accept(s) \/ ConnectStart(s) \/ ConnWait(s)
  \/ SessInit(s) \/ Loop(s) \/ Cleanup(s) \/ Return(s)
  \/ MirrorIter(s)

\* The scripted peer asks for two-pixel pictures.
EnvTinyConfig(s) == EnvSend(s, {<<CH_C, 2, 1>>})

World(s) ==
  \/ EnvConn(s) \/ EnvTinyConfig(s) \/ EnvClose(s)
  \/ Key(s) \/ CamDeliver(s)

\* Every mode and camera kind on a terminal of 80 x 25; a server whose
\* stdin is no terminal; a server that cannot query its window size.
LifeCfgs ==
  {Cfg(m[1], m[2], cam, TRUE, TRUE, 80, 25) :
     m \in {<<"mirror", "server">>, <<"network", "server">>,
            <<"network", "client">>},
     cam \in {"dummy", "device"}}
  \cup {Cfg("network", "server", "dummy", FALSE, TRUE, 80, 25),
        Cfg("network", "server", "dummy", TRUE, FALSE, 80, 25)}

SideOf(cfg) == IF cfg.role = "client" THEN "cli" ELSE "srv"

InitLife ==
  \E cfg \in LifeCfgs :
    /\ clock = 0
    /\ chan = [s \in Side |-> <<>>]
    /\ eof = [s \in Side |-> FALSE]
    /\ stdin = [s \in Side |-> <<>>]
    /\ env = [s \in Side |-> Env0]
    /\ P = [s \in Side |-> IF s = SideOf(cfg) THEN P0(cfg) ELSE Off]
    /\ call = NoCall

NextLife == \E s \in Side : Proc(s) \/ World(s)

SpecLife == InitLife /\ [][NextLife]_vars

NextLifeKill == NextLife \/ (\E s \in Side : Kill(s))

SpecLifeKill == InitLife /\ [][NextLifeKill]_vars

\* C6: raw-mode lifecycle.  The terminal enters raw mode at most once per
\* process, and whenever a process that had enabled raw mode has ended, by
\* return from main, by exit() or by a signal, the original terminal
\* attributes are back and the cursor is shown.
RawModeLifecycle ==
  \A s \in Side :
    /\ P[s].h_rawcount <= 1
    /\ (Ended(P[s]) /\ P[s].h_rawcount > 0) =>
         /\ P[s].termios = "orig"
         /\ P[s].cursor = "shown"

SessionBuffers == {"net_buffer", "recv_buffer", "last_peer_pixels"}

CleanExit(p) ==
  /\ p.pc = "exited"
  /\ p.h_ctrlc \in {"session", "mirror"} \/ p.h_eofread

\* C7: no leak on clean exit.  When the process has ended through Ctrl-C
\* or peer close in the session loop, or Ctrl-C in the mirror loop, the
\* session buffers and the camera's pixel buffer have been freed and the
\* session socket has been closed by the program.
NoLeakOnCleanExit ==
  \A s \in Side :
    CleanExit(P[s]) =>
      /\ P[s].heap = {}
      /\ "sockfd" \notin P[s].h_unclosed

PeerCloseEndsSession ==
  \A s \in Side :
    LET p == P[s]
    IN p.h_eofread =>
         /\ p.pc \in {"cleanup", "ret", "exited"}
         /\ p.statusmsg = "Connection closed by peer."
         /\ p.pc \in {"ret", "exited"} =>
              /\ p.heap \cap SessionBuffers = {}
              /\ "sockfd" \notin p.fds \cup p.h_unclosed
         /\ p.pc = "exited" => p.termios = "orig" /\ p.exitcode = 0

\* C9 witness: a client in raw mode read end of file and has exited.
PeerCloseSeen ==
  /\ P["cli"].h_eofread
  /\ P["cli"].pc = "exited"
  /\ P["cli"].h_rawcount = 1

(***************************************************************************)
(* SpecPair: a server and a client, each on a terminal that is never       *)
(* resized, each with a device camera that has delivered no frame, so that *)
(* Config packets are all that travels.                                    *)
(***************************************************************************)
\* The kernel completes (or refuses) the client's pending connect.
KernelConnect ==
  /\ P["cli"].pc = "connwait" /\ P["srv"].pc # "off"
  /\ env["cli"].conn = "none"
  /\ env' = IF "server_fd" \in P["srv"].fds
            THEN [env EXCEPT !["cli"].conn = "ok", !["srv"].conn = "pending"]
            ELSE [env EXCEPT !["cli"].conn = "err"]
  /\ UNCHANGED <<clock, chan, eof, stdin, P, call>>

\* Terminal sizes (cols, rows).
PairSizes == {<<80, 25>>, <<120, 41>>, <<300, 25>>, <<80, 1>>}

InitPair ==
  \E a \in PairSizes, b \in PairSizes :
    InitWith([srv |-> Cfg("network", "server", "device", TRUE, TRUE,
                          a[1], a[2]),
              cli |-> Cfg("network", "client", "device", TRUE, TRUE,
                          b[1], b[2])])

NextPair ==
  \/ \E s \in Side :
       \/ Start(s) \/ RawMode(s) \/ CamSetup(s)
       \/ ListenOpen(s) \/ Accept(s) \/ ConnectStart(s) \/ ConnWait(s)
       \/ SessInit(s) \/ Loop(s)
  \/ KernelConnect

SpecPair == InitPair /\ [][NextPair]_vars

\* C10: handshake between two peers.  With neither terminal resized, each
\* side has sent its own Config before anything else once it is in the
\* session loop, each side receives no more than one Config, and from the
\* first Config on each side's peer_render is the other side's terminal
\* (cols, usable rows) clamped to 255.
HandshakeOnce ==
  \A s \in Side :
    LET p == P[s]
        q == P[Other(s)]
    IN InLoop(p) =>
         /\ p.h_confs >= 1
         /\ Len(p.h_decoded) <= 1
         /\ Len(p.h_decoded) = 1 =>
              /\ p.peer_w = Clamp255(q.tty_cols)
              /\ p.peer_h = Clamp255(q.tty_rows - 1)

(***************************************************************************)
(* Terminal resizes.  The window of the terminal changes and the kernel    *)
(* raises SIGWINCH; once initEditor has installed handleSigWinCh the        *)
(* handler runs updateWindowSize between two steps of the main thread, and *)
(* a select the process is blocked in returns -1 (EINTR).  Before that the *)
(* signal is ignored.  The environment notes what the process had          *)
(* announced (my_w, my_h) and how many Config packets it had written when  *)
(* the resize happened.                                                    *)
(***************************************************************************)
MaxResizes == 2

ResizeSizes == {<<120, 30>>, <<300, 25>>, <<80, 24>>}

HandleSigWinCh(p) ==
  LET q == UpdateWindowSize(p)
  IN IF Live(q) THEN [q EXCEPT !.eintr = (p.pc = "select"), !.h_fresh = TRUE]
     ELSE q

ResizeTo(s, sizes) ==
  /\ Live(P[s])
  /\ env[s].resizes < MaxResizes
  /\ \E sz \in sizes :
       /\ sz # <<P[s].tty_cols, P[s].tty_rows>>
       /\ LET t == [P[s] EXCEPT !.tty_cols = sz[1], !.tty_rows = sz[2]]
          IN Step(s, IF t.sigwinch THEN HandleSigWinCh(t) ELSE t)
  /\ env' = [env EXCEPT ![s].resizes = @ + 1,
                        ![s].rs_from = <<P[s].my_w, P[s].my_h>>,
                        ![s].rs_confs = P[s].h_confs]
  /\ UNCHANGED <<clock, chan, stdin, call>>

Resize(s) == ResizeTo(s, ResizeSizes)

\* A resize while the session loop runs.
ResizeInSession(s) == InLoop(P[s]) /\ Resize(s)

(***************************************************************************)
(* The resize scenario: a server on an 80x24 terminal whose camera has not *)
(* delivered a frame, a scripted peer that connects and reads what it is   *)
(* sent, and a terminal that is resized during the session.                *)
(***************************************************************************)
InitResize ==
  InitWith([srv |-> Cfg("network", "server", "device", TRUE, TRUE, 80, 24)])

NextResize ==
  \/ ServerUp("srv") \/ Loop("srv")
  \/ EnvConn("srv") \/ EnvDrain("srv")
  \/ ResizeInSession("srv")
  \/ TickFrame

SpecResize == InitResize /\ [][NextResize]_vars

\* The terminal of s has been resized to a size other than the announced one
\* and the loop has been at its top since.
ResizeHandled(s) ==
  /\ InLoop(P[s]) /\ env[s].resizes > 0 /\ ~P[s].h_fresh
  /\ env[s].rs_from # <<Clamp255(P[s].tty_cols), Clamp255(P[s].tty_rows - 1)>>

\* C11: when the terminal is resized during a session, the next pass of the
\* loop sets my_render_w / my_render_h to the new (cols, rows - 1) clamped
\* to 255 and writes exactly one Config packet, which carries them; no
\* further Config follows for that resize.
ResizeNotifiedOnce ==
  \A s \in Side :
    ResizeHandled(s) =>
      /\ P[s].my_w = Clamp255(P[s].tty_cols)
      /\ P[s].my_h = Clamp255(P[s].tty_rows - 1)
      /\ P[s].h_lastconf = <<CH_C, P[s].my_w, P[s].my_h>>
      /\ P[s].h_confsent = P[s].h_lastconf
      /\ P[s].h_confs = env[s].rs_confs + 1

\* C12: a pass of the loop writes a Config packet exactly when the clamped
\* (cols, usable rows) differ from (my_render_w, my_render_h); while the
\* terminal keeps its size, also above 255 columns or rows, no further
\* Config is written.
ConfigOnlyOnChange ==
  [][\A s \in Side :
       (P[s].pc = "top" /\ P'[s].pc = "select") =>
         ((P'[s].h_confs = P[s].h_confs + 1)
            <=> (<<Clamp255(P[s].screencols), Clamp255(P[s].screenrows)>>
                   # <<P[s].my_w, P[s].my_h>>))]_vars

\* C13: my_render_w and my_render_h are within [1, 255] at all times of a
\* session, also on a terminal of one row (usable rows 0), and every Config
\* packet written carries w >= 1 and h >= 1.
RenderDimsInRange ==
  \A s \in Side :
    InLoop(P[s]) =>
      /\ P[s].my_w \in 1..DIM_MAX /\ P[s].my_h \in 1..DIM_MAX
      /\ P[s].h_lastconf[2] >= 1 /\ P[s].h_lastconf[3] >= 1

(***************************************************************************)
(* The peer-dimension scenario: a server with a camera (the dummy source,  *)
(* or a device that delivers its first frame at some time) and a scripted  *)
(* peer that sends Config packets, two of them with a zero dimension, and  *)
(* reads what it is sent.                                                  *)
(***************************************************************************)
PeerConfigs == {<<CH_C, 1, 1>>, <<CH_C, 2, 1>>, <<CH_C, 0, 2>>, <<CH_C, 2, 0>>}

EnvPeerConfig(s) == EnvSend(s, PeerConfigs)

InitPeerDims ==
  \E cam \in {"dummy", "device"} :
    InitWith([srv |-> Cfg("network", "server", cam, TRUE, TRUE, 80, 25)])

NextPeerDims ==
  \/ ServerUp("srv") \/ Loop("srv")
  \/ EnvConn("srv") \/ EnvPeerConfig("srv") \/ EnvDrain("srv")
  \/ CamDeliver("srv")
  \/ TickFrame

SpecPeerDims == InitPeerDims /\ [][NextPeerDims]_vars

\* peer_render as the Config packets decoded so far determine it: the last
\* one with both dimensions >= 1, or 80x60.
PeerRenderOf(decoded) ==
  LET I == {i \in 1 .. Len(decoded) :
              /\ decoded[i][1] = CH_C
              /\ decoded[i][2] >= 1 /\ decoded[i][3] >= 1}
  IN IF I = {} THEN <<PEER_W0, PEER_H0>>
     ELSE LET i == CHOOSE j \in I : \A k \in I : k <= j
          IN <<decoded[i][2], decoded[i][3]>>

\* C14: peer_render is (80, 60) until a Config arrives; a Config with w = 0
\* or h = 0 leaves it alone and one with w, h >= 1 sets it; a Picture is
\* sent only when the camera has a frame, its header carries peer_render as
\* it is when the Picture is sent, and its payload is exactly w * h bytes.
PictureFitsPeer ==
  \A s \in Side :
    InLoop(P[s]) =>
      /\ <<P[s].peer_w, P[s].peer_h>> = PeerRenderOf(P[s].h_decoded)
      /\ P[s].h_pics > 0 =>
           /\ CamHasFrame(P[s])
           /\ P[s].h_pic.hdr = <<CH_P, P[s].h_pic.peer[1], P[s].h_pic.peer[2]>>
           /\ P[s].h_pic.wire = 3 + P[s].h_pic.peer[1] * P[s].h_pic.peer[2]

(***************************************************************************)
(* The rasterizers called on their own.  The arguments are drawn from the  *)
(* sets below: source sizes, luminances and BGRA pixels, destination       *)
(* sizes (smaller than, equal to and larger than the source), offsets,     *)
(* both values of mirror, and ramps of 1, 2 and 6 glyphs.                  *)
(***************************************************************************)
SrcSizes == {<<1, 1>>, <<2, 1>>, <<3, 1>>, <<2, 2>>, <<4, 1>>}

DstSizes == {<<1, 1>>, <<2, 1>>, <<3, 2>>, <<4, 1>>, <<5, 2>>}

Lumas == {0, 100, 255}

\* B, G, R, A of black, blue, a grey, white
BGRAPixels == {<<0, 0, 0, 255>>, <<255, 0, 0, 255>>, <<100, 100, 100, 255>>,
               <<255, 255, 255, 255>>}

Offsets == {<<0, 0>>, <<40, 12>>}

RampLens == {1, 2, 6}

InitQuiet ==
  /\ clock = 0
  /\ chan = [s \in Side |-> <<>>]
  /\ eof = [s \in Side |-> FALSE]
  /\ stdin = [s \in Side |-> <<>>]
  /\ env = [s \in Side |-> Env0]
  /\ P = [s \in Side |-> Off]

InitRaster ==
  /\ InitQuiet
  /\ \E sz \in SrcSizes, d \in DstSizes, off \in Offsets, m \in BOOLEAN,
        n \in RampLens :
       \E k \in ({"luma"} \X [1 .. sz[1] * sz[2] -> Lumas])
                \cup ({"bgra"} \X {Flatten(f) :
                                     f \in [1 .. sz[1] * sz[2] -> BGRAPixels]}) :
         call = [fn |-> "none", kind |-> k[1], pixels |-> k[2],
                 w |-> sz[1], h |-> sz[2],
                 x_off |-> off[1], y_off |-> off[2],
                 target_w |-> d[1], target_h |-> d[2], mirror |-> m,
                 density_count |-> n, ab |-> <<>>]

RenderBufferCall ==
  /\ call.fn = "none" /\ call.kind = "luma"
  /\ call' = [call EXCEPT
                !.fn = "renderBuffer",
                !.ab = RenderBuffer(<<>>, call.pixels, call.w, call.h,
                                    call.x_off, call.y_off, call.target_w,
                                    call.target_h, call.mirror,
                                    call.density_count)]
  /\ UNCHANGED <<clock, chan, eof, stdin, P, env>>

RenderBufferBGRACall ==
  /\ call.fn = "none" /\ call.kind = "bgra"
  /\ call' = [call EXCEPT
                !.fn = "renderBufferBGRA",
                !.ab = RenderBufferBGRA(<<>>, call.pixels, call.w, call.h,
                                        call.x_off, call.y_off, call.target_w,
                                        call.target_h, call.mirror,
                                        call.density_count)]
  /\ UNCHANGED <<clock, chan, eof, stdin, P, env>>

NextRaster == RenderBufferCall \/ RenderBufferBGRACall

SpecRaster == InitRaster /\ [][NextRaster]_vars

Rendered == call.fn \in {"renderBuffer", "renderBufferBGRA"}

\* the luminances the call sampled
SampledLumas ==
  {IF call.kind = "luma"
   THEN call.pixels[SampleY(y, call.h, call.target_h) * call.w
                    + SampleX(x, call.w, call.target_w, call.mirror) + 1]
   ELSE LET o == (SampleY(y, call.h, call.target_h) * call.w
                  + SampleX(x, call.w, call.target_w, call.mirror)) * 4
        IN U8(Luma(call.pixels[o + 3], call.pixels[o + 2], call.pixels[o + 1]))
   : x \in 0 .. call.target_w - 1, y \in 0 .. call.target_h - 1}

\* C15: for source and destination sizes >= 1, either value of mirror and a
\* ramp of at least one glyph, renderBuffer and renderBufferBGRA append
\* exactly target_h cursor-position sequences, each followed by exactly
\* target_w glyphs; every glyph index is in [0, ramp_len - 1]; and when all
\* sampled luminances are equal every glyph has index 0.
RasterShape ==
  Rendered =>
    /\ Len(call.ab) = call.target_h * (call.target_w + 1)
    /\ \A y \in 0 .. call.target_h - 1 :
         /\ call.ab[y * (call.target_w + 1) + 1]
              = <<"cup", call.y_off + y + 1, call.x_off + 1>>
         /\ \A x \in 1 .. call.target_w :
              LET t == call.ab[y * (call.target_w + 1) + 1 + x]
              IN /\ t[1] = "glyph"
                 /\ t[2] \in 0 .. call.density_count - 1
                 /\ Cardinality(SampledLumas) = 1 => t[2] = 0

\* A call that sampled more than one luminance from a source larger than
\* the destination and used the last glyph of a six-glyph ramp.
RasterShapeSeen ==
  /\ Rendered /\ call.density_count = 6
  /\ call.w > call.target_w /\ call.target_h > call.h
  /\ Cardinality(SampledLumas) > 1
  /\ \E k \in 1 .. Len(call.ab) : call.ab[k] = <<"glyph", 5, 0>>

(***************************************************************************)
(* setDensityString called on its own, with strings of one to three bytes  *)
(* over: an ASCII byte, lead bytes of two-, three- and four-byte           *)
(* sequences, a continuation byte and 0xFF (both invalid as lead bytes),   *)
(* and with the memory behind the terminator zero or holding a stale       *)
(* continuation byte.                                                      *)
(***************************************************************************)
RampBytes == {65, 195, 226, 240, 136, 255}

RampStrings == UNION {[1 .. n -> RampBytes] : n \in {1, 2, 3}}

RampTails == {<<>>, <<136>>, <<0, 136>>, <<136, 136, 65>>}

InitRamp ==
  /\ InitQuiet
  /\ call \in {[fn |-> "none", str |-> str, tail |-> tail, glyphs |-> <<>>] :
                 str \in RampStrings, tail \in RampTails}

setDensityStringCall ==
  /\ call.fn = "none"
  /\ call' = [call EXCEPT
                !.fn = "setDensityString",
                !.glyphs = setDensityString(call.str \o <<0>> \o call.tail)]
  /\ UNCHANGED <<clock, chan, eof, stdin, P, env>>

NextRamp == setDensityStringCall

SpecRamp == InitRamp /\ [][NextRamp]_vars

\* C20: for every non-empty input string, strings with invalid lead bytes
\* and strings ending in a truncated multi-byte sequence included, the
\* glyphs setDensityString stores, concatenated in order, are exactly the
\* input bytes, and every glyph is 1 to 4 bytes long.
RampRoundTrip ==
  call.fn = "setDensityString" =>
    /\ Flatten([i \in 1 .. Len(call.glyphs) |-> CStr(call.glyphs[i])])
         = call.str
    /\ \A i \in 1 .. Len(call.glyphs) : Len(CStr(call.glyphs[i])) \in 1 .. 4

\* the same renderBuffer call with the other value of mirror
Unmirrored ==
  RenderBuffer(<<>>, call.pixels, call.w, call.h, call.x_off, call.y_off,
               call.target_w, call.target_h, ~call.mirror,
               call.density_count)

\* source[y][i] = source[y][w-1-i] for all i, y
HSymmetric(pixels, w, h) ==
  \A y \in 0 .. h - 1, i \in 0 .. w - 1 :
    pixels[y * w + i + 1] = pixels[y * w + (w - 1 - i) + 1]

Reverse(q) == [i \in 1 .. Len(q) |-> q[Len(q) + 1 - i]]

\* C16 as stated: for every horizontally symmetric luminance source and
\* every destination size, renderBuffer with mirror = true appends exactly
\* the bytes renderBuffer with mirror = false appends.
MirrorSymmetric ==
  (call.fn = "renderBuffer" /\ HSymmetric(call.pixels, call.w, call.h)) =>
    AbBytes(call.ab, RampOf(call.density_count))
      = AbBytes(Unmirrored, RampOf(call.density_count))

\* C16, amended: renderBuffer with mirror = true appends the cursor
\* sequences of mirror = false and, in every row, the glyphs of mirror =
\* false in reverse order; for a horizontally symmetric source whose width
\* equals the destination width the two calls append the same bytes.
MirrorReverses ==
  call.fn = "renderBuffer" =>
    /\ \A y \in 0 .. call.target_h - 1 :
         /\ call.ab[y * (call.target_w + 1) + 1]
              = Unmirrored[y * (call.target_w + 1) + 1]
         /\ RowGlyphs(call.ab, y, call.target_w)
              = Reverse(RowGlyphs(Unmirrored, y, call.target_w))
    /\ (HSymmetric(call.pixels, call.w, call.h) /\ call.w = call.target_w) =>
         AbBytes(call.ab, RampOf(call.density_count))
           = AbBytes(Unmirrored, RampOf(call.density_count))

\* A mirrored call on a symmetric source of width 4 drawn at width 4 whose
\* row holds two different glyphs.
MirrorSymmetricSeen ==
  /\ call.fn = "renderBuffer" /\ call.mirror
  /\ HSymmetric(call.pixels, call.w, call.h)
  /\ call.w = 4 /\ call.target_w = 4 /\ call.density_count = 6
  /\ RowGlyphs(call.ab, 0, 4)[1] # RowGlyphs(call.ab, 0, 4)[2]

\* every row of the source is non-increasing from left to right
RowsNonIncreasing(pixels, w, h) ==
  \A y \in 0 .. h - 1, i \in 0 .. w - 2 :
    pixels[y * w + i + 1] >= pixels[y * w + i + 2]

\* C17: for a luminance source whose rows are non-increasing from left to
\* right, renderBuffer with mirror = true yields, in every destination row,
\* glyph indices that are non-decreasing from left to right.
MirrorDirection ==
  (/\ call.fn = "renderBuffer" /\ call.mirror
   /\ RowsNonIncreasing(call.pixels, call.w, call.h)) =>
    \A y \in 0 .. call.target_h - 1 :
      LET row == RowGlyphs(call.ab, y, call.target_w)
      IN \A x \in 1 .. call.target_w - 1 : row[x] <= row[x + 1]

\* A mirrored call on a left-bright, right-dark source of width 3 drawn at
\* width 5: the row starts with the darkest glyph and ends with the
\* brightest of a six-glyph ramp.
MirrorDirectionSeen ==
  /\ call.fn = "renderBuffer" /\ call.mirror
  /\ RowsNonIncreasing(call.pixels, call.w, call.h)
  /\ call.w = 3 /\ call.target_w = 5 /\ call.density_count = 6
  /\ RowGlyphs(call.ab, 0, 5)[1] = 0 /\ RowGlyphs(call.ab, 0, 5)[5] = 5

(***************************************************************************)
(* What the program has last written to the terminal, rebuilt from the     *)
(* arguments of that write (h_drawn): hide cursor, go home, the rasterizer *)
(* output and the status line.                                             *)
(***************************************************************************)
\* The frame the fc-th call of getDummyFrame fills, as bytes B, G, R, A per
\* pixel; the fourth byte is never written by the gradient branch and never
\* read by a renderer.
DummyFrame(fc) ==
  [i \in 1 .. CAM_W * CAM_H * 4 |->
     LET px == (i - 1) \div 4
     IN IF (i - 1) % 4 = 3 THEN 0
        ELSE GradientVal(px % CAM_W, px \div CAM_W, fc)]

\* the pixels cameraGetFrame hands out
CamFrame(p, fc) ==
  IF p.camera = "dummy" THEN DummyFrame(fc)
  ELSE [i \in 1 .. CAM_W * CAM_H * 4 |-> p.cam_fill]

\* renderStatus: cursor to the row below the picture, erase the line, the
\* status message while it is younger than 5 s (the model's clock stays
\* below that)
RenderStatus(ab, rows, statusmsg) ==
  ab \o <<<<"cup", rows + 1, 1>>, <<"el", 0, 0>>>>
     \o (IF statusmsg # "" THEN <<<<"status", 0, 0>>>> ELSE <<>>)

\* the buffer runMirrorMode wrote for its last frame
MirrorScreen(p) ==
  LET d == p.h_drawn
  IN RenderStatus(
       RenderBufferBGRA(<<<<"hide", 0, 0>>, <<"home", 0, 0>>>>,
                        CamFrame(p, d.fc), CAM_W, CAM_H, 0, 0,
                        d.cols, d.rows, TRUE, Len(p.density_glyphs)),
       d.rows, p.statusmsg)

\* the rasterizer's part of a screen: what follows hide-cursor and go-home
\* for n appends
RasterPart(screen, n) == SubSeq(screen, 3, 2 + n)

(***************************************************************************)
(* Scenario S1: mirror mode, the dummy-gradient camera, a terminal of 10   *)
(* columns and 6 rows (5 usable).  Keys are typed at any time.             *)
(***************************************************************************)
InitMirror ==
  InitWith([srv |-> Cfg("mirror", "server", "dummy", TRUE, TRUE, 10, 6)])

NextMirror ==
  \/ Start("srv") \/ RawMode("srv") \/ CamSetup("srv")
  \/ MirrorIter("srv") \/ Return("srv")
  \/ Key("srv")

SpecMirror == InitMirror /\ [][NextMirror]_vars

\* the first frame of the mirror loop is on the terminal
FirstFrameDrawn(s) ==
  /\ P[s].h_drawn.kind = "mirror" /\ P[s].h_drawn.fc = 1
  /\ P[s].h_drawn.cols = 10 /\ P[s].h_drawn.rows = 5

\* The shape of S1's first frame: 5 cursor moves, each followed by 10
\* glyphs of the ramp.
FirstFrameShape(s) ==
  LET ab == RasterPart(MirrorScreen(P[s]), 55)
  IN /\ Len(MirrorScreen(P[s])) = 2 + 55 + 3
     /\ \A y \in 0 .. 4 :
          /\ ab[y * 11 + 1] = <<"cup", y + 1, 1>>
          /\ \A x \in 1 .. 10 :
               /\ ab[y * 11 + 1 + x][1] = "glyph"
               /\ ab[y * 11 + 1 + x][2] \in 0 .. Len(P[s].density_glyphs) - 1

\* C18 as stated: in mirror mode with the dummy gradient (640x480) on 10
\* columns by 5 usable rows, the first frame is 5 rows of 10 glyphs, each
\* row preceded by a cursor move, and in every row the glyph index in the
\* rightmost column is <= the glyph index in the leftmost column.
S1RightNotBrighter ==
  \A s \in Side :
    FirstFrameDrawn(s) =>
      /\ FirstFrameShape(s)
      /\ \A y \in 0 .. 4 :
           LET row == RowGlyphs(RasterPart(MirrorScreen(P[s]), 55), y, 10)
           IN row[10] <= row[1]

\* the glyph indices of S1's first frame, row by row, left to right
S1Rows ==
  <<<<1, 0, 4, 2, 1, 0, 4, 2, 1, 0>>,
    <<3, 2, 0, 4, 3, 2, 0, 4, 3, 2>>,
    <<0, 4, 2, 1, 0, 4, 2, 1, 0, 4>>,
    <<2, 0, 5, 3, 2, 0, 4, 3, 2, 0>>,
    <<4, 2, 1, 0, 4, 2, 1, 0, 4, 2>>>>

\* C18, amended: in mirror mode with the dummy gradient (640x480) on 10
\* columns by 5 usable rows, the first frame is 5 rows of 10 glyphs, each
\* row preceded by a cursor move, and its glyph indices are those of S1Rows:
\* the gradient wraps modulo 255 within a row, the rightmost glyph is <= the
\* leftmost in rows 1, 2, 4 and 5 and greater (4 against 0) in row 3.
S1FirstFrame ==
  \A s \in Side :
    FirstFrameDrawn(s) =>
      /\ FirstFrameShape(s)
      /\ \A y \in 0 .. 4 :
           RowGlyphs(RasterPart(MirrorScreen(P[s]), 55), y, 10) = S1Rows[y + 1]

\* The first frame is on the terminal and the loop is about to go on; its
\* third row runs from glyph 0 on the left to glyph 4 on the right.
S1FirstFrameSeen ==
  /\ P["srv"].pc = "mirror" /\ FirstFrameDrawn("srv")
  /\ P["srv"].frame_counter = 1
  /\ Len(P["srv"].density_glyphs) = 6
  /\ RowGlyphs(RasterPart(MirrorScreen(P["srv"]), 55), 2, 10)[1] = 0
  /\ RowGlyphs(RasterPart(MirrorScreen(P["srv"]), 55), 2, 10)[10] = 4

\* the buffer redrawNetworkView wrote last: the peer's picture over the
\* whole usable region (PIP) or its left half (split), and, when the camera
\* had a frame, the own picture in a box near the bottom right corner or in
\* the right half
\* last_peer_pixels as the rasterizer addresses it.  For a picture of width
\* or height 0 the clamp "ix = w-1" / "iy = h-1" gives -1 and the read is
\* pixels[-1], the byte in front of the block (index 0 here).
PeerMemory(p) ==
  [i \in (1 - Max(1, p.last_peer_w)) .. Len(p.last_peer_pixels) |->
     IF i <= 0 THEN p.heap_byte ELSE p.last_peer_pixels[i]]

NetworkScreen(p) ==
  LET d == p.h_drawn
      dc == Len(p.density_glyphs)
      half_w == d.cols \div 2
      sw == Max(10, d.cols \div 4)
      sh == Max(5, d.rows \div 4)
      head == <<<<"hide", 0, 0>>, <<"home", 0, 0>>>>
      peer == RenderBuffer(head, PeerMemory(p), p.last_peer_w,
                           p.last_peer_h, 0, 0,
                           IF d.view = "pip" THEN d.cols ELSE half_w,
                           d.rows, TRUE, dc)
      both == IF ~d.self THEN peer
              ELSE IF d.view = "pip"
              THEN RenderBufferBGRA(peer, CamFrame(p, d.fc), CAM_W, CAM_H,
                                    d.cols - sw - 2, d.rows - sh - 2,
                                    sw, sh, TRUE, dc)
              ELSE RenderBufferBGRA(peer, CamFrame(p, d.fc), CAM_W, CAM_H,
                                    half_w, 0, d.cols - half_w, d.rows,
                                    TRUE, dc)
  IN RenderStatus(both, d.rows, p.statusmsg)

(***************************************************************************)
(* Scenario S3: a server on a terminal of 4 columns and 3 rows (2 usable)  *)
(* whose peer sends the Picture 'P', 4, 2 with eight payload bytes.  Reads *)
(* take any prefix of what is in flight, and the camera delivers its first *)
(* frame at some time or never.                                            *)
(***************************************************************************)
S3Payload == <<0, 64, 128, 255, 32, 96, 160, 224>>

S3Packet == <<CH_P, 4, 2>> \o S3Payload

EnvS3Picture(s) == EnvSend(s, {S3Packet})

InitS3 ==
  InitWith([srv |-> Cfg("network", "server", "device", TRUE, TRUE, 4, 3)])

NextS3 ==
  \/ ServerUp("srv") \/ Loop("srv")
  \/ EnvConn("srv") \/ EnvS3Picture("srv")
  \/ CamDeliver("srv")

SpecS3 == InitS3 /\ [][NextS3]_vars

\* the S3 Picture has been decoded and drawn in PIP view on the 4x2 region
S3Drawn(s) ==
  /\ InLoop(P[s]) /\ P[s].h_decoded # <<>>
  /\ P[s].h_decoded[Len(P[s].h_decoded)] = S3Packet
  /\ P[s].h_drawn.kind = "network" /\ P[s].h_drawn.view = "pip"
  /\ P[s].h_drawn.cols = 4 /\ P[s].h_drawn.rows = 2

\* the glyph indices drawn for source row y (0-based) of the peer's picture,
\* in the order of the source pixels: redrawNetworkView draws the peer with
\* mirror = 1, so the row is on the screen from right to left
S3SourceRow(s, y) ==
  Reverse(RowGlyphs(RasterPart(NetworkScreen(P[s]), 10), y, 4))

S3Stored(s) ==
  /\ P[s].last_peer_w = 4 /\ P[s].last_peer_h = 2
  /\ P[s].last_peer_pixels = S3Payload

\* C19 as stated: the packet 'P',4,2 with payload [0,64,128,255,32,96,160,
\* 224] is stored as last_peer 4x2 with those bytes, and rendered onto the
\* 4x2 region with the six-glyph ramp it yields glyph indices 0,2,3,5 for
\* the first source row and 1,2,4,5 for the second.
S3GlyphsAsStated ==
  \A s \in Side :
    S3Drawn(s) =>
      /\ S3Stored(s)
      /\ S3SourceRow(s, 0) = <<0, 2, 3, 5>>
      /\ S3SourceRow(s, 1) = <<1, 2, 4, 5>>

\* C19, amended: the packet is stored as last_peer 4x2 with those bytes,
\* and rendered onto the 4x2 region with the six-glyph ramp (min 0, max
\* 255, idx = (v - min) * 5 / 255 in integer division) it yields glyph
\* indices 0,1,2,5 for the first source row and 0,1,3,4 for the second,
\* drawn mirrored: 5,2,1,0 and 4,3,1,0 from left to right.
S3Glyphs ==
  \A s \in Side :
    S3Drawn(s) =>
      /\ S3Stored(s)
      /\ S3SourceRow(s, 0) = <<0, 1, 2, 5>>
      /\ S3SourceRow(s, 1) = <<0, 1, 3, 4>>
      /\ SubSeq(NetworkScreen(P[s]), 3, 12)
           = << <<"cup", 1, 1>>, <<"glyph", 5, 0>>, <<"glyph", 2, 0>>,
                <<"glyph", 1, 0>>, <<"glyph", 0, 0>>,
                <<"cup", 2, 1>>, <<"glyph", 4, 0>>, <<"glyph", 3, 0>>,
                <<"glyph", 1, 0>>, <<"glyph", 0, 0>> >>

\* The S3 picture has been decoded whole, stored and drawn once.
S3DrawnSeen ==
  /\ S3Drawn("srv") /\ S3Stored("srv")
  /\ Len(P["srv"].density_glyphs) = 6
  /\ P["srv"].h_redraws = 1
  /\ P["srv"].recv = <<>>

(***************************************************************************)
(* SpecNoTty: one process whose standard input is not a terminal (a pipe,  *)
(* a file), while the window-size query on the output side works; in       *)
(* mirror mode, as server and as client.                                   *)
(***************************************************************************)
NoTtyCfgs ==
  {Cfg(m[1], m[2], cam, FALSE, TRUE, 80, 25) :
     m \in {<<"mirror", "server">>, <<"network", "server">>,
            <<"network", "client">>},
     cam \in {"dummy", "device"}}

InitNoTty ==
  \E cfg \in NoTtyCfgs :
    InitWith(IF SideOf(cfg) = "srv" THEN [srv |-> cfg] ELSE [cli |-> cfg])

SpecNoTty == InitNoTty /\ [][NextLife]_vars

\* C21: a terminal is required.  A process whose standard input is not a
\* terminal gets no further than enabling raw mode: it never reaches the
\* camera setup, the connection wait, the session loop or the mirror loop,
\* and when it has ended its exit status is not zero.
TerminalRequired ==
  \A s \in Side :
    (P[s].pc # "off" /\ ~P[s].isatty) =>
      /\ P[s].pc \in {"main", "raw", "exited"}
      /\ P[s].pc = "exited" => P[s].exitcode # 0

(***************************************************************************)
(* SpecSmall: a server on a terminal of one row or none (usable rows 0 or  *)
(* -1) whose peer sends one-pixel Pictures and Configs; the user toggles   *)
(* the view, and the device camera delivers its first frame at some time   *)
(* or never.                                                               *)
(***************************************************************************)
SmallSizes == {<<80, 1>>, <<80, 0>>}

SmallPkts == {<<CH_P, 1, 1, CH_C>>, <<CH_C, 2, 1>>}

EnvSmallPacket(s) == EnvSend(s, SmallPkts)

InitSmall ==
  \E d \in SmallSizes :
    InitWith([srv |-> Cfg("network", "server", "device", TRUE, TRUE,
                          d[1], d[2])])

NextSmall ==
  \/ ServerUp("srv") \/ Loop("srv")
  \/ EnvConn("srv") \/ EnvSmallPacket("srv") \/ EnvDrain("srv")
  \/ Key("srv") \/ CamDeliver("srv")

SpecSmall == InitSmall /\ [][NextSmall]_vars

\* C22: window too small in the session loop.  When the usable rows or the
\* columns are <= 0, the buffer a redraw writes, in PIP and in split view,
\* holds hide-cursor, go-home and the status row and nothing else: no
\* cursor move and no glyph for the peer's picture or for the own picture.
SmallWindowNoImage ==
  \A s \in Side :
    LET p == P[s]
        d == p.h_drawn
    IN (d.kind = "network" /\ (d.rows <= 0 \/ d.cols <= 0)) =>
         NetworkScreen(p) =
           RenderStatus(<<<<"hide", 0, 0>>, <<"home", 0, 0>>>>,
                        d.rows, p.statusmsg)

(***************************************************************************)
(* The timeout argument of the select call a process is blocked in: the    *)
(* waits of tcpListen and tcpConnect pass NULL, the session loop passes tv *)
(* = wait_ms.                                                              *)
(***************************************************************************)
InSelect(p) == p.pc \in {"accept", "connwait", "select"}

SelectTimeout(p) ==
  IF p.pc = "select" THEN [null |-> FALSE, ms |-> p.wait_ms]
  ELSE [null |-> TRUE, ms |-> 0]

\* the steady-state part: wait_ms as the top of the loop computes it
SteadyWaitBounded(p) ==
  p.pc = "select" =>
    /\ p.wait_ms = Max(0, p.next_frame_time - p.now)
    /\ p.wait_ms \in 0 .. FRAME_MS

\* C23: every wait of the main thread is bounded.  Each select call, in
\* the accept wait, in the connect wait and in the session loop, is given
\* a finite timeout, and in the session loop that timeout is
\* max(0, next_frame_time - now) and lies in 0 .. 33 ms.
WaitsBounded ==
  \A s \in Side :
    /\ InSelect(P[s]) => ~SelectTimeout(P[s]).null
    /\ SteadyWaitBounded(P[s])

SteadyWaitsBounded == \A s \in Side : SteadyWaitBounded(P[s])

(***************************************************************************)
(* SpecBig: a server whose peer sends Pictures of the largest size, 255 x  *)
(* 255, so that more bytes are in flight than the accumulator takes; reads *)
(* return large chunks whose ends fall inside a payload, inside a header   *)
(* and on the accumulator's limit.  The peer may close at any time.        *)
(***************************************************************************)
\* 'P', w, h and w * h payload bytes that look like a type byte
BigPicture(w, h) == <<CH_P, w, h>> \o [i \in 1 .. w * h |-> CH_P]

\* The headers of the streams the peer sends, packet by packet.
BigStreams ==
  {<<<<CH_C, 80, 40>>, <<CH_P, 255, 4>>, <<CH_P, 255, 255>>,
     <<CH_P, 255, 255>>, <<CH_P, 255, 4>>>>,
   <<<<CH_P, 255, 4>>, <<CH_C, 80, 40>>, <<CH_P, 255, 255>>,
     <<CH_C, 80, 40>>, <<CH_P, 255, 255>>>>,
   <<<<CH_C, 80, 40>>, <<CH_C, 40, 80>>, <<CH_P, 255, 255>>>>}

\* What a read returns at most, in bytes.
BigReads == {65000, 65027, 65030, 131000}

\* The scripted peer writes the next packet of one of the streams.
EnvBig(s) ==
  /\ Scripted(s) /\ Connected(s) /\ ~eof[s]
  /\ Arrival(s)
  /\ \E st \in BigStreams :
       LET k == Len(env[s].pkts) + 1
           hdr == st[k]
       IN /\ k <= Len(st)
          /\ Take(st, k - 1) = env[s].pkts
          /\ chan' = [chan EXCEPT ![s] =
                        @ \o (IF hdr[1] = CH_P THEN BigPicture(hdr[2], hdr[3])
                              ELSE hdr)]
          /\ env' = [env EXCEPT ![s].pkts = Append(@, hdr)]
  /\ UNCHANGED <<clock, eof, stdin, P, call>>

\* "Handle Network Receive" with the read returning a large chunk
RecvStepBig(s) ==
  /\ P[s].pc = "recv"
  /\ IF P[s].rd_sock
     THEN \E n \in (IF ReadMost(s) >= 1
                    THEN {Min(k, ReadMost(s)) : k \in BigReads} ELSE {0}) :
            RecvRead(s, n)
     ELSE /\ Step(s, [P[s] EXCEPT !.pc = "send"])
          /\ UNCHANGED chan
  /\ UNCHANGED <<clock, stdin, env, call>>

InitBig ==
  InitWith([srv |-> Cfg("network", "server", "device", TRUE, TRUE, 80, 25)])

NextBig ==
  \/ ServerUp("srv")
  \/ Top("srv") \/ Select("srv") \/ StdinStep("srv") \/ RecvStepBig("srv")
  \/ SendStep("srv")
  \/ EnvConn("srv") \/ EnvBig("srv") \/ EnvClose("srv")

SpecBig == InitBig /\ [][NextBig]_vars

\* the accumulator holds fewer than 3 bytes or one incomplete Picture
RecvSettled(p) ==
  \/ Len(p.recv) < 3
  \/ /\ p.recv[1] = CH_P
     /\ Len(p.recv) < 3 + p.recv[2] * p.recv[3]

\* C24: receive accumulator bound and progress.  No read takes recv_len
\* above 131000; between two reads the accumulator holds fewer than
\* 3 + 255 * 255 bytes, namely fewer than 3 bytes or one incomplete
\* Picture, so that the read on a readable socket asks for at least one
\* byte; and a read has returned 0 only when the peer had closed.
RecvBounded ==
  /\ [](\A s \in Side :
          InLoop(P[s]) =>
            /\ Len(P[s].recv) < 3 + DIM_MAX * DIM_MAX
            /\ RecvSettled(P[s])
            /\ RECV_MAX - Len(P[s].recv) >= 1
            /\ P[s].h_eofread => eof[s])
  /\ [][\A s \in Side :
          Len(chan'[s]) < Len(chan[s]) =>
            Len(P[s].recv) + (Len(chan[s]) - Len(chan'[s])) <= RECV_MAX]_vars

\* C24 witness: two small packets were decoded, and after a further read
\* and its parse loop the accumulator holds a
\* Picture of 255 x 255 that lacks its last byte, one byte below the bound;
\* that byte is in flight and the next read may ask for 65973 bytes.
RecvFilledSeen ==
  /\ P["srv"].pc = "send"
  /\ Len(P["srv"].recv) = 3 + DIM_MAX * DIM_MAX - 1
  /\ P["srv"].recv[2] = DIM_MAX /\ P["srv"].recv[3] = DIM_MAX
  /\ Len(P["srv"].h_decoded) = 2
  /\ Len(chan["srv"]) = 1

\* the accumulator starts with 'P', w, h and holds fewer than 3 + w * h bytes
PictureIncomplete(p) ==
  /\ Len(p.recv) >= 3
  /\ p.recv[1] = CH_P
  /\ Len(p.recv) < 3 + p.recv[2] * p.recv[3]

\* what an incomplete Picture must leave alone
PeerView(p) ==
  <<p.peer_w, p.peer_h, p.last_peer_w, p.last_peer_h, p.last_peer_pixels,
    p.h_redraws, p.h_drawn>>

\* C25: an incomplete Picture is a no-op.  While the accumulator starts
\* with 'P', w, h and holds fewer than 3 + w * h bytes, the parse loop run
\* on it changes nothing at all; a step of the loop that reads no byte
\* leaves the accumulator, peer_render, last_peer and the screen as they
\* are; and a read that does not complete the Picture only appends the
\* bytes it returned.
IncompleteIsNoOp ==
  /\ [](\A s \in Side :
          (InLoop(P[s]) /\ PictureIncomplete(P[s])) =>
            ParseLoop(P[s]) = P[s])
  /\ [][\A s \in Side :
          (InLoop(P[s]) /\ PictureIncomplete(P[s]) /\ stdin'[s] = stdin[s]) =>
            /\ chan'[s] = chan[s] =>
                 /\ P'[s].recv = P[s].recv
                 /\ PeerView(P'[s]) = PeerView(P[s])
            /\ (/\ Len(chan'[s]) < Len(chan[s])
                /\ Len(P[s].recv) + (Len(chan[s]) - Len(chan'[s]))
                     < 3 + P[s].recv[2] * P[s].recv[3]) =>
                 /\ P'[s].recv =
                      P[s].recv \o Take(chan[s], Len(chan[s]) - Len(chan'[s]))
                 /\ PeerView(P'[s]) = PeerView(P[s])]_vars

\* C25 witness: the S3 Picture has arrived up to its seventh byte, over at
\* least two reads, nothing has been drawn, and the loop has gone on to
\* its send step.
IncompleteSeen ==
  /\ P["srv"].pc = "send"
  /\ PictureIncomplete(P["srv"])
  /\ Len(P["srv"].recv) = 7
  /\ P["srv"].h_redraws = 0 /\ P["srv"].last_peer_w = 0

(***************************************************************************)
(* SpecMixed: a server with the dummy camera whose peer interleaves        *)
(* Configs (one with a zero dimension) and one-pixel Pictures, while       *)
(* frame periods pass.                                                     *)
(***************************************************************************)
MixedPkts == {<<CH_P, 1, 1, CH_C>>, <<CH_C, 2, 1>>, <<CH_C, 0, 2>>}

EnvMixedPacket(s) == EnvSend(s, MixedPkts)

InitMixed ==
  InitWith([srv |-> Cfg("network", "server", "dummy", TRUE, TRUE, 80, 25)])

NextMixed ==
  \/ ServerUp("srv") \/ Loop("srv")
  \/ EnvConn("srv") \/ EnvMixedPacket("srv")
  \/ TickFrame

SpecMixed == InitMixed /\ [][NextMixed]_vars

\* what a Config must leave alone
BesidesPeerDims(p) ==
  <<p.last_peer_w, p.last_peer_h, p.last_peer_pixels, p.view_mode,
    p.my_w, p.my_h, p.next_frame_time, p.h_redraws, p.h_drawn>>

\* the packets decoded by the step are Configs, at least one
DecodedConfigsOnly(p, q) ==
  /\ Len(q.h_decoded) > Len(p.h_decoded)
  /\ \A i \in Len(p.h_decoded) + 1 .. Len(q.h_decoded) :
       q.h_decoded[i][1] = CH_C

\* C26: a received Config changes only the peer dimensions.  A read whose
\* bytes complete Configs and no Picture takes exactly 3 bytes per Config
\* out of the accumulator and leaves last_peer, view_mode, my_render and
\* next_frame_time unchanged, with no redraw; peer_render is always what
\* the Configs decoded so far determine, and every Picture is sent with
\* the peer_render of the moment it is sent.
ConfigOnlyPeerDims ==
  /\ [](\A s \in Side :
          InLoop(P[s]) =>
            <<P[s].peer_w, P[s].peer_h>> = PeerRenderOf(P[s].h_decoded))
  /\ [][\A s \in Side :
          /\ DecodedConfigsOnly(P[s], P'[s]) =>
               /\ Len(P[s].recv) + (Len(chan[s]) - Len(chan'[s]))
                    - Len(P'[s].recv)
                  = 3 * (Len(P'[s].h_decoded) - Len(P[s].h_decoded))
               /\ BesidesPeerDims(P'[s]) = BesidesPeerDims(P[s])
          /\ P'[s].h_pics > P[s].h_pics =>
               /\ P'[s].h_pic.peer = PeerRenderOf(P[s].h_decoded)
               /\ P'[s].h_pic.hdr =
                    <<CH_P, P[s].peer_w, P[s].peer_h>>]_vars

\* C26 witness: a Picture was received and drawn, then the Config 'C',2,1
\* was decoded, and of the two Pictures sent the second went out with the
\* new dimensions 2 x 1.
ConfigAfterPictureSeen ==
  LET p == P["srv"]
  IN /\ Len(p.h_decoded) = 2
     /\ p.h_decoded[1][1] = CH_P /\ p.h_decoded[2] = <<CH_C, 2, 1>>
     /\ p.last_peer_w = 1 /\ p.h_redraws = 1
     /\ p.h_pics = 2 /\ p.h_pic.peer = <<2, 1>>

(***************************************************************************)
(* SpecToggle: a server whose peer sends Pictures of one pixel and of no   *)
(* pixel (zero width or zero height) while the user types 'v', 'V', 'x'    *)
(* and Ctrl-C.                                                             *)
(***************************************************************************)
TogglePkts == {<<CH_P, 1, 1, CH_C>>, <<CH_P, 0, 1>>, <<CH_P, 1, 0>>}

ToggleKeys == {CTRL_C, KEY_v, KEY_V, 120}

EnvTogglePacket(s) == EnvSend(s, TogglePkts)

\* A key out of ToggleKeys is typed.
ToggleKey(s) ==
  /\ Live(P[s])
  /\ env[s].keys < MaxKeys
  /\ \E b \in ToggleKeys : stdin' = [stdin EXCEPT ![s] = Append(@, b)]
  /\ env' = [env EXCEPT ![s].keys = @ + 1]
  /\ UNCHANGED <<clock, chan, eof, P, call>>

InitToggle ==
  InitWith([srv |-> Cfg("network", "server", "device", TRUE, TRUE, 80, 25)])

NextToggle ==
  \/ ServerUp("srv") \/ Loop("srv")
  \/ EnvConn("srv") \/ EnvTogglePacket("srv")
  \/ ToggleKey("srv")

SpecToggle == InitToggle /\ [][NextToggle]_vars

\* a complete Picture has been received
PictureReceived(p) == \E i \in 1 .. Len(p.h_decoded) : p.h_decoded[i][1] = CH_P

\* the step reads byte c from stdin in the session loop
ReadsKey(s, c) ==
  /\ P[s].pc = "stdin" /\ P[s].rd_stdin
  /\ stdin[s] # <<>> /\ Head(stdin[s]) = c
  /\ stdin'[s] = Tail(stdin[s])

\* C27: view toggle.  In the session loop a byte 'v' or 'V' flips
\* view_mode and redraws at once if and only if a peer Picture has been
\* received before; any other byte but Ctrl-C leaves view_mode alone and
\* redraws nothing.
ViewToggle ==
  [][\A s \in Side : \A c \in ToggleKeys :
       ReadsKey(s, c) =>
         IF c \in {KEY_v, KEY_V}
         THEN /\ P'[s].view_mode # P[s].view_mode
              /\ P'[s].view_mode \in {"pip", "split"}
              /\ P'[s].h_redraws =
                   P[s].h_redraws + (IF PictureReceived(P[s]) THEN 1 ELSE 0)
         ELSE c # CTRL_C =>
                /\ P'[s].view_mode = P[s].view_mode
                /\ P'[s].h_redraws = P[s].h_redraws]_vars

(***************************************************************************)
(* SpecEmit: the two loops that draw.  Either the mirror loop with the     *)
(* dummy camera, or a server whose peer sends two small Pictures while the *)
(* user types 'v', 'x', 'V' and Ctrl-C at any time; the server's camera is *)
(* the dummy or a device that never delivers.  All on a terminal of 10     *)
(* columns and 6 rows.  Some of the Pictures have width or height 0, for   *)
(* which the rasterizer reads the byte in front of the pixel block.        *)
(***************************************************************************)
\* The streams the peer sends, packet by packet.
EmitStreams ==
  {<<<<CH_P, 1, 1, CH_C>>, <<CH_P, 0, 1>>>>,
   <<<<CH_P, 1, 0>>, <<CH_P, 1, 1, CH_C>>>>,
   <<<<CH_P, 2, 1, 0, CH_P>>, <<CH_P, 1, 1, CH_C>>>>}

\* The scripted peer writes the next packet of one of the streams.
EnvEmitPacket(s) ==
  /\ Scripted(s) /\ Connected(s) /\ ~eof[s]
  /\ Arrival(s)
  /\ \E st \in EmitStreams :
       LET k == Len(env[s].pkts) + 1
       IN /\ k <= Len(st)
          /\ Take(st, k - 1) = env[s].pkts
          /\ chan' = [chan EXCEPT ![s] = @ \o st[k]]
          /\ env' = [env EXCEPT ![s].sent = @ \o st[k],
                                ![s].pkts = Append(@, st[k])]
  /\ UNCHANGED <<clock, eof, stdin, P, call>>

\* The keys the user types, in this order.
EmitKeys == <<KEY_v, 120, KEY_V, CTRL_C>>

EmitKey(s) ==
  /\ Live(P[s])
  /\ env[s].keys < Len(EmitKeys)
  /\ stdin' = [stdin EXCEPT ![s] = Append(@, EmitKeys[env[s].keys + 1])]
  /\ env' = [env EXCEPT ![s].keys = @ + 1]
  /\ UNCHANGED <<clock, chan, eof, P, call>>

\* What the byte in front of last_peer_pixels may hold.
HeapBytes == {0, 255}

InitEmit ==
  \E cfg \in {Cfg("mirror", "server", "dummy", TRUE, TRUE, 10, 6),
              Cfg("network", "server", "dummy", TRUE, TRUE, 10, 6),
              Cfg("network", "server", "device", TRUE, TRUE, 10, 6)} :
    \E b \in (IF cfg.mode = "mirror" THEN {0} ELSE HeapBytes) :
      /\ clock = 0
      /\ chan = [s \in Side |-> <<>>]
      /\ eof = [s \in Side |-> FALSE]
      /\ stdin = [s \in Side |-> <<>>]
      /\ env = [s \in Side |-> Env0]
      /\ P = [s \in Side |->
                IF s = "srv" THEN [P0(cfg) EXCEPT !.heap_byte = b] ELSE Off]
      /\ call = NoCall

NextEmit ==
  \/ ServerUp("srv") \/ Loop("srv")
  \/ MirrorIter("srv") \/ Return("srv")
  \/ EnvConn("srv") \/ EnvEmitPacket("srv")
  \/ EmitKey("srv")

SpecEmit == InitEmit /\ [][NextEmit]_vars

\* a written buffer is one whole frame: hide-cursor, go-home, cursor moves
\* and glyphs, and the status row at its end
WholeFrame(screen, rows, statusmsg) ==
  LET status == RenderStatus(<<>>, rows, statusmsg)
      n == Len(screen) - Len(status)
  IN /\ n >= 2
     /\ screen[1] = <<"hide", 0, 0>>
     /\ screen[2] = <<"home", 0, 0>>
     /\ \A i \in 3 .. n : screen[i][1] \in {"cup", "glyph"}
     /\ SubSeq(screen, n + 1, Len(screen)) = status

\* the Pictures among the packets the step decoded
PicturesDecoded(p, q) ==
  Cardinality({i \in Len(p.h_decoded) + 1 .. Len(q.h_decoded) :
                 q.h_decoded[i][1] = CH_P})

\* C28: atomic frame emission.  Every buffer written by a redraw of the
\* session loop or by a frame of the mirror loop is one whole frame:
\* hide-cursor, go-home, the image, the status row.  A step of the session
\* loop writes one such buffer per Picture it completes and one for a view
\* toggle with a picture stored, and nothing else; a pass of the mirror
\* loop that got a frame on a window with room writes the buffer of that
\* frame.
FrameEmission ==
  /\ [](\A s \in Side :
          LET p == P[s]
          IN /\ p.h_drawn.kind = "network" =>
                  WholeFrame(NetworkScreen(p), p.h_drawn.rows, p.statusmsg)
             /\ p.h_drawn.kind = "mirror" =>
                  WholeFrame(MirrorScreen(p), p.h_drawn.rows, p.statusmsg))
  /\ [][\A s \in Side :
          /\ P'[s].h_redraws - P[s].h_redraws =
               PicturesDecoded(P[s], P'[s])
               + (IF /\ \E c \in {KEY_v, KEY_V} : ReadsKey(s, c)
                     /\ P[s].last_peer_w > 0
                  THEN 1 ELSE 0)
          /\ P'[s].h_redraws # P[s].h_redraws =>
               /\ P'[s].h_drawn.kind = "network"
               /\ P'[s].h_drawn.view = P'[s].view_mode
          /\ (/\ P[s].pc = "mirror" /\ P'[s].pc = "mirror"
              /\ P'[s].frame_counter > P[s].frame_counter) =>
               P'[s].h_drawn = [kind |-> "mirror", cols |-> P[s].screencols,
                                rows |-> P[s].screenrows,
                                fc |-> P'[s].frame_counter]]_vars

\* C28 witness: two Pictures and a view toggle have caused three writes;
\* the last one is in split view with the own picture beside the peer's.
ThreeFramesSeen ==
  LET p == P["srv"]
  IN /\ p.h_redraws = 3
     /\ PicturesDecoded([p EXCEPT !.h_decoded = <<>>], p) = 2
     /\ p.h_drawn.kind = "network" /\ p.h_drawn.view = "split"
     /\ p.h_drawn.self
     /\ Len(NetworkScreen(p)) > 2 + 5 * 6 + 2

DeliveryFits ==
  \A s \in Side : P[s].slot.copied <= P[s].slot.size

(***************************************************************************)
(* The source indices iy * w + ix that renderBuffer reads from             *)
(* last_peer_pixels in the redraw recorded in h_drawn (C indices, the      *)
(* block being [0, w * h)).                                                *)
(***************************************************************************)
PeerReads(p) ==
  LET d == p.h_drawn
      target_w == IF d.view = "pip" THEN d.cols ELSE d.cols \div 2
      target_h == d.rows
  IN IF target_w <= 0 \/ target_h <= 0 THEN {}
     ELSE {SampleY(y, p.last_peer_h, target_h) * p.last_peer_w
             + SampleX(x, p.last_peer_w, target_w, TRUE) :
           x \in 0 .. target_w - 1, y \in 0 .. target_h - 1}

\* C31: rasterizer reads stay in bounds for every received Picture.  After
\* any Picture the parser accepted, also one with w = 0 or h = 0, every
\* source index the redraw read lies in [0, w * h) of the stored frame.
PeerReadsInBounds ==
  \A s \in Side :
    P[s].h_drawn.kind = "network" =>
      \A i \in PeerReads(P[s]) :
        0 <= i /\ i < P[s].last_peer_w * P[s].last_peer_h

\* the same for Pictures with w > 0 and h > 0 only
PeerReadsInBoundsNonEmpty ==
  \A s \in Side :
    P[s].h_drawn.kind = "network" /\ P[s].last_peer_w > 0
      /\ P[s].last_peer_h > 0 =>
      \A i \in PeerReads(P[s]) :
        0 <= i /\ i < P[s].last_peer_w * P[s].last_peer_h

(***************************************************************************)
(* SpecRange: a server (dummy camera, or a device that delivers at some    *)
(* time) whose peer sends Configs with dimensions 0, 1 and 255, Pictures   *)
(* whose payload looks like packets, bytes that start no packet, and a     *)
(* packet that is never completed; reads take any prefix of what is in     *)
(* flight, and frame periods pass.                                         *)
(***************************************************************************)
\* The streams the peer sends, piece by piece.
RangeStreams ==
  {<<<<88>>, <<CH_C, 255, 255>>, <<CH_C, 0, 40>>,
     <<CH_P, 1, 3, CH_C, 0, 0>>, <<CH_C, 7>>>>,
   <<<<CH_C, 255, 0>>, <<0>>, <<CH_C, 255, 1>>, <<CH_P, 0, 0>>,
     <<CH_C, 1, 255>>, <<CH_P, 255>>>>}

\* The scripted peer writes the next piece of one of the streams.
EnvRangePacket(s) ==
  /\ Scripted(s) /\ Connected(s) /\ ~eof[s]
  /\ Arrival(s)
  /\ \E st \in RangeStreams :
       LET k == Len(env[s].pkts) + 1
       IN /\ k <= Len(st)
          /\ Take(st, k - 1) = env[s].pkts
          /\ chan' = [chan EXCEPT ![s] = @ \o st[k]]
          /\ env' = [env EXCEPT ![s].sent = @ \o st[k],
                                ![s].pkts = Append(@, st[k])]
  /\ UNCHANGED <<clock, eof, stdin, P, call>>

InitRange ==
  \E cam \in {"dummy", "device"} :
    InitWith([srv |-> Cfg("network", "server", cam, TRUE, TRUE, 80, 25)])

NextRange ==
  \/ ServerUp("srv") \/ Loop("srv")
  \/ EnvConn("srv") \/ EnvRangePacket("srv")
  \/ CamDeliver("srv")
  \/ TickFrame

SpecRange == InitRange /\ [][NextRange]_vars

\* The frame cameraGetFrame hands out: its width and height, and the size
\* in bytes of the block pixels points to (the dummy's is malloc(640 * 480
\* * 4), the device's is the slot).
FrameOf(p) ==
  IF p.camera = "dummy"
  THEN [width |-> CAM_W, height |-> CAM_H, size |-> CAM_W * CAM_H * 4]
  ELSE [width |-> p.slot.width, height |-> p.slot.height,
        size |-> p.slot.size]

\* ix = (x * frame.width) / w
EncX(x, w, f) == (x * f.width) \div w

\* iy = (y * frame.height) / h
EncY(y, h, f) == (y * f.height) \div h

\* offset = (iy * frame.width + ix) * 4
EncOffset(ix, iy, f) == (iy * f.width + ix) * 4

\* C32: peer dimensions stay in range.  Whatever bytes have been received,
\* in the session loop peer_w and peer_h are in [1, 255]; so the payload
\* size w * h is at most 65025 and fits the send buffer of 65536 bytes, and
\* the encoder's source column and row of every pixel lie inside the frame
\* the camera handed out, and with them the three bytes it reads at offset
\* + 0, 1, 2 (the offset grows with the column and the row, so the corner
\* pixels of the frame bound all of them).
PeerDimsInRange ==
  \A s \in Side :
    InLoop(P[s]) =>
      LET w == P[s].peer_w
          h == P[s].peer_h
          f == FrameOf(P[s])
      IN /\ w \in 1 .. DIM_MAX /\ h \in 1 .. DIM_MAX
         /\ w * h <= DIM_MAX * DIM_MAX
         /\ w * h <= NET_MAX
         /\ CamHasFrame(P[s]) =>
              /\ \A x \in 0 .. w - 1 : EncX(x, w, f) \in 0 .. f.width - 1
              /\ \A y \in 0 .. h - 1 : EncY(y, h, f) \in 0 .. f.height - 1
              /\ \A ix \in {0, f.width - 1}, iy \in {0, f.height - 1} :
                   /\ 0 <= EncOffset(ix, iy, f)
                   /\ EncOffset(ix, iy, f) + 2 < f.size

\* C32 witness: after a junk byte and a Config with a zero dimension the
\* peer's size is 255 x 255 and a Picture of that size has been encoded.
PeerDimsLargestSeen ==
  /\ InLoop(P["srv"])
  /\ P["srv"].peer_w = DIM_MAX /\ P["srv"].peer_h = DIM_MAX
  /\ P["srv"].h_skipped > 0
  /\ Len(P["srv"].h_decoded) >= 2
  /\ P["srv"].h_pics > 0 /\ P["srv"].h_pic.peer = <<DIM_MAX, DIM_MAX>>

(***************************************************************************)
(* SpecAdopt: a server and a client on terminals of 80 x 25, each with a   *)
(* device camera that delivers no frame, so that Config packets are all    *)
(* that travels; the server's terminal is resized during the session, to   *)
(* sizes below 255.  Every process that can take a step eventually takes   *)
(* one, the kernel eventually completes the connect, and the timeout of a  *)
(* select with nothing to read runs out, so that neither loop ever stands  *)
(* still.                                                                  *)
(***************************************************************************)
\* The sizes the server's terminal is resized to, to and fro.
AdoptSizes == {<<120, 30>>, <<80, 25>>}

\* A step of process s.
Run(s) ==
  \/ Start(s) \/ RawMode(s) \/ CamSetup(s)
  \/ ListenOpen(s) \/ Accept(s) \/ ConnectStart(s) \/ ConnWait(s)
  \/ SessInit(s) \/ Loop(s)

ResizeAdopt(s) == InLoop(P[s]) /\ ResizeTo(s, AdoptSizes)

\* The timeout of the select that process s is blocked in runs out with
\* nothing to read (wait_ms is at most one frame period; the time that
\* passes is not counted here).
SelectExpire(s) ==
  /\ P[s].pc = "select"
  /\ ~P[s].eintr /\ stdin[s] = <<>> /\ chan[s] = <<>> /\ ~eof[s]
  /\ Step(s, [P[s] EXCEPT !.pc = "stdin", !.rd_stdin = FALSE,
                          !.rd_sock = FALSE])
  /\ UNCHANGED <<clock, chan, stdin, env, call>>

InitAdopt ==
  InitWith([srv |-> Cfg("network", "server", "device", TRUE, TRUE, 80, 25),
            cli |-> Cfg("network", "client", "device", TRUE, TRUE, 80, 25)])

NextAdopt ==
  \/ Run("srv") \/ Run("cli")
  \/ KernelConnect
  \/ ResizeAdopt("srv")
  \/ SelectExpire("srv") \/ SelectExpire("cli")

SpecAdopt ==
  /\ InitAdopt /\ [][NextAdopt]_vars
  /\ WF_vars(Run("srv")) /\ WF_vars(Run("cli")) /\ WF_vars(KernelConnect)
  /\ WF_vars(SelectExpire("srv")) /\ WF_vars(SelectExpire("cli"))

\* the server's terminal has been resized during the session and is sz
ResizedTo(sz) ==
  /\ env["srv"].resizes > 0
  /\ <<P["srv"].tty_cols, P["srv"].tty_rows>> = sz

\* the client's peer_render is sz's (cols, usable rows) clamped
AdoptedBy(sz) ==
  /\ P["cli"].peer_w = Clamp255(sz[1])
  /\ P["cli"].peer_h = Clamp255(sz[2] - 1)

\* C33: a resize is eventually adopted by the peer.  If the server's
\* terminal is resized to a size and then keeps it, and both session loops
\* keep running, then from some time on the client's peer_render is that
\* size, clamped, also when the write of the Config packet met a full
\* socket (EAGAIN).
ResizeAdopted ==
  \A sz \in AdoptSizes :
    (<>[]ResizedTo(sz) /\ <>[](InLoop(P["srv"]) /\ InLoop(P["cli"])))
      => <>[]AdoptedBy(sz)

\* the same for behaviours in which no Config write met a full socket
ResizeAdoptedWhenWritten ==
  \A sz \in AdoptSizes :
    (/\ <>[]ResizedTo(sz)
     /\ <>[](InLoop(P["srv"]) /\ InLoop(P["cli"]))
     /\ [](P["srv"].h_confsent = P["srv"].h_lastconf))
      => <>[]AdoptedBy(sz)

(***************************************************************************)
(* redrawNetworkView statement by statement.  E.screencols / E.screenrows  *)
(* are read anew by each statement that uses them, and the handler of the  *)
(* window-change signal, which writes them, may run between any two        *)
(* statements.  call holds the redraw in progress: the view it took, its   *)
(* locals half_w, sw, sh, the regions composed so far as <<x_off, y_off,   *)
(* target_w, target_h>>, and the number of resizes seen when it began.     *)
(***************************************************************************)
RedrawEnter(s) ==
  /\ InLoop(P[s]) /\ call = NoCall
  /\ P[s].h_redraws < MaxFrames
  /\ call' = [fn |-> "redrawNetworkView",
              pc |-> IF P[s].view_mode = "pip" THEN "peer" ELSE "half",
              view |-> P[s].view_mode,
              half_w |-> 0, sw |-> 0, sh |-> 0,
              peer |-> <<>>, self |-> <<>>, status |-> 0,
              resizes |-> env[s].resizes]
  /\ UNCHANGED <<clock, chan, eof, stdin, P, env>>

\* int half_w = E.screencols / 2;
RedrawHalf(s) ==
  /\ call.fn = "redrawNetworkView" /\ call.pc = "half"
  /\ call' = [call EXCEPT !.half_w = P[s].screencols \div 2, !.pc = "peer"]
  /\ UNCHANGED <<clock, chan, eof, stdin, P, env>>

\* renderBuffer(&ab, peer_pixels, ...); if (cameraGetFrame(cam, &my_frame))
RedrawPeer(s) ==
  /\ call.fn = "redrawNetworkView" /\ call.pc = "peer"
  /\ call' = [call EXCEPT
                !.peer = <<0, 0,
                           IF call.view = "pip" THEN P[s].screencols
                           ELSE call.half_w,
                           P[s].screenrows>>,
                !.pc = IF ~CamHasFrame(P[s]) THEN "status"
                       ELSE IF call.view = "pip" THEN "box" ELSE "self"]
  /\ Step(s, IF CamHasFrame(P[s]) THEN CamGetFrame(P[s]) ELSE P[s])
  /\ UNCHANGED <<clock, chan, stdin, env>>

\* int sw = E.screencols / 4; int sh = E.screenrows / 4;
\* if (sw < 10) sw = 10; if (sh < 5) sh = 5;
RedrawBox(s) ==
  /\ call.fn = "redrawNetworkView" /\ call.pc = "box"
  /\ call' = [call EXCEPT !.sw = Max(10, P[s].screencols \div 4),
                          !.sh = Max(5, P[s].screenrows \div 4),
                          !.pc = "self"]
  /\ UNCHANGED <<clock, chan, eof, stdin, P, env>>

\* renderBufferBGRA(&ab, ..., x_off, y_off, target_w, target_h, 1)
RedrawSelf(s) ==
  /\ call.fn = "redrawNetworkView" /\ call.pc = "self"
  /\ call' = [call EXCEPT
                !.self = IF call.view = "pip"
                         THEN <<P[s].screencols - call.sw - 2,
                                P[s].screenrows - call.sh - 2,
                                call.sw, call.sh>>
                         ELSE <<call.half_w, 0,
                                P[s].screencols - call.half_w,
                                P[s].screenrows>>,
                !.pc = "status"]
  /\ UNCHANGED <<clock, chan, eof, stdin, P, env>>

\* renderStatus(&ab): the cursor goes to row E.screenrows + 1
RedrawStatus(s) ==
  /\ call.fn = "redrawNetworkView" /\ call.pc = "status"
  /\ call' = [call EXCEPT !.status = P[s].screenrows + 1, !.pc = "write"]
  /\ UNCHANGED <<clock, chan, eof, stdin, P, env>>

\* write(STDOUT_FILENO, ab.b, ab.len); abFree(&ab);
RedrawWrite(s) ==
  /\ call.fn = "redrawNetworkView" /\ call.pc = "write"
  /\ call' = NoCall
  /\ Step(s, [P[s] EXCEPT !.cursor = "hidden", !.h_redraws = @ + 1])
  /\ UNCHANGED <<clock, chan, stdin, env>>

RedrawSteps(s) ==
  \/ RedrawEnter(s) \/ RedrawHalf(s) \/ RedrawPeer(s) \/ RedrawBox(s)
  \/ RedrawSelf(s) \/ RedrawStatus(s) \/ RedrawWrite(s)

(***************************************************************************)
(* SpecRace: a server in its session (dummy camera, or a device that has   *)
(* no frame) redraws, in PIP or, after a 'v', in split view, while its     *)
(* terminal is resized.  The loop itself stands still while a redraw is in *)
(* progress; the signal handler does not.                                  *)
(***************************************************************************)
RaceSizes == {<<120, 30>>, <<40, 12>>}

RaceResize(s) == InLoop(P[s]) /\ ResizeTo(s, RaceSizes)

\* The user types 'v'.
RaceKey(s) ==
  /\ Live(P[s])
  /\ env[s].keys < 1
  /\ stdin' = [stdin EXCEPT ![s] = Append(@, KEY_v)]
  /\ env' = [env EXCEPT ![s].keys = @ + 1]
  /\ UNCHANGED <<clock, chan, eof, P, call>>

InitRace ==
  \E cam \in {"dummy", "device"} :
    InitWith([srv |-> Cfg("network", "server", cam, TRUE, TRUE, 80, 25)])

NextRace ==
  \/ ServerUp("srv") \/ EnvConn("srv")
  \/ (call = NoCall /\ Loop("srv"))
  \/ RaceKey("srv")
  \/ RedrawSteps("srv")
  \/ RaceResize("srv")

SpecRace == InitRace /\ [][NextRace]_vars

\* the regions of a redraw in view v as one (cols, rows) pair gives them
RegionsOf(v, has_self, cols, rows) ==
  LET sw == Max(10, cols \div 4)
      sh == Max(5, rows \div 4)
      half_w == cols \div 2
  IN [peer |-> IF v = "pip" THEN <<0, 0, cols, rows>>
               ELSE <<0, 0, half_w, rows>>,
      self |-> IF ~has_self THEN <<>>
               ELSE IF v = "pip" THEN <<cols - sw - 2, rows - sh - 2, sw, sh>>
               ELSE <<half_w, 0, cols - half_w, rows>>,
      status |-> rows + 1]

\* the (cols, usable rows) pairs E can hold in SpecRace
RaceGeometries == {<<80, 24>>} \cup {<<sz[1], sz[2] - 1>> : sz \in RaceSizes}

\* C34: one geometry per redraw.  A window-change signal that arrives while
\* a redraw is composed does not change the geometry of that redraw: when
\* the redraw is written, its peer region, its self region and its status
\* row are those of one (cols, rows) pair; so in split view the widths of
\* the two halves sum to that cols.
OneGeometry ==
  call.fn = "redrawNetworkView" /\ call.pc = "write" =>
    \E g \in RaceGeometries :
      LET r == RegionsOf(call.view, call.self # <<>>, g[1], g[2])
      IN /\ call.peer = r.peer /\ call.self = r.self
         /\ call.status = r.status
         /\ (call.view = "split" /\ call.self # <<>>) =>
              call.peer[3] + call.self[3] = g[1]

\* the same for redraws during which no signal arrived
OneGeometryUndisturbed ==
  (/\ call.fn = "redrawNetworkView" /\ call.pc = "write"
   /\ env["srv"].resizes = call.resizes) =>
    LET r == RegionsOf(call.view, call.self # <<>>,
                       P["srv"].screencols, P["srv"].screenrows)
    IN /\ call.peer = r.peer /\ call.self = r.self
       /\ call.status = r.status

(***************************************************************************)
(* SpecInset: a server with the dummy camera in its session, in PIP view,  *)
(* on terminals from 1 x 2 (one usable row) to 300 x 101, redraws.         *)
(***************************************************************************)
\* Terminal sizes (cols, rows).
InsetSizes ==
  {<<c, r>> : c \in {1, 9, 11, 12, 13, 40, 80, 300}, r \in {2, 6, 7, 8, 9, 25, 101}}

InitInset ==
  \E sz \in InsetSizes :
    InitWith([srv |-> Cfg("network", "server", "dummy", TRUE, TRUE,
                          sz[1], sz[2])])

NextInset ==
  \/ ServerUp("srv") \/ EnvConn("srv")
  \/ RedrawEnter("srv") \/ RedrawPeer("srv") \/ RedrawBox("srv")
  \/ RedrawSelf("srv") \/ RedrawStatus("srv") \/ RedrawWrite("srv")

SpecInset == InitInset /\ [][NextInset]_vars

\* the inset of the redraw in progress lies inside the cols x rows region
InsetInside(cols, rows) ==
  LET x_off == call.self[1]
      y_off == call.self[2]
      sw == call.self[3]
      sh == call.self[4]
  IN /\ sw = Max(cols \div 4, 10) /\ sh = Max(rows \div 4, 5)
     /\ x_off + sw = cols - 2 /\ y_off + sh = rows - 2
     /\ x_off >= 0 /\ y_off >= 0
     /\ x_off + sw <= cols /\ y_off + sh <= rows

\* C35: the PiP inset stays on screen.  On every terminal with cols >= 1
\* and usable rows >= 1 the self inset of a PIP redraw, max(cols/4, 10) by
\* max(rows/4, 5) cells placed 2 cells from the right and bottom edges, has
\* non-negative offsets and lies inside the cols x rows region.
InsetOnScreen ==
  (/\ call.fn = "redrawNetworkView" /\ call.view = "pip"
   /\ call.self # <<>>
   /\ P["srv"].screencols >= 1 /\ P["srv"].screenrows >= 1) =>
    InsetInside(P["srv"].screencols, P["srv"].screenrows)

\* the same on terminals of at least 12 columns and 7 usable rows
InsetOnScreenFrom12x7 ==
  (/\ call.fn = "redrawNetworkView" /\ call.view = "pip"
   /\ call.self # <<>>
   /\ P["srv"].screencols >= 12 /\ P["srv"].screenrows >= 7) =>
    InsetInside(P["srv"].screencols, P["srv"].screenrows)

(***************************************************************************)
(* The dummy-bounce source: getDummyFrame called on its own, frame after   *)
(* frame, on the camera initDummyCamera has set up (a frame of 640 x 480). *)
(* call holds cam->bounce.                                                 *)
(***************************************************************************)
BOX == 80

\* cam->bounce.x = 100; .y = 100; .dx = 8; .dy = 8
Bounce0 == [x |-> 100, y |-> 100, dx |-> 8, dy |-> 8]

\* A source that turns round at the boundary without stepping back.
BounceAxisStay(pos, d, limit) ==
  LET t == pos + d
  IN IF t < 0 \/ t + BOX >= limit THEN <<t, 0 - d>> ELSE <<t, d>>

\* x += dx; if (x < 0 || x + box >= w) { dx = -dx; x += dx; }
BounceAxis(pos, d, limit) ==
  LET t == pos + d
  IN IF t < 0 \/ t + BOX >= limit THEN <<t + (0 - d), 0 - d>> ELSE <<t, d>>

\* "Update" of the dummy-bounce branch
BounceUpdate(b, w, h) ==
  LET ax == BounceAxis(b.x, b.dx, w)
      ay == BounceAxis(b.y, b.dy, h)
  IN [x |-> ax[1], dx |-> ax[2], y |-> ay[1], dy |-> ay[2]]

InitBounce ==
  /\ InitQuiet
  /\ call = [fn |-> "initDummyCamera", bounce |-> Bounce0]

GetDummyFrameCall ==
  /\ call.fn \in {"initDummyCamera", "getDummyFrame"}
  /\ call' = [fn |-> "getDummyFrame",
              bounce |-> BounceUpdate(call.bounce, CAM_W, CAM_H)]
  /\ UNCHANGED <<clock, chan, eof, stdin, P, env>>

NextBounce == GetDummyFrameCall

SpecBounce == InitBounce /\ [][NextBounce]_vars

\* the tentative move of an axis would leave the range
BounceLeaves(pos, d, limit) == pos + d < 0 \/ pos + d + BOX >= limit

\* C36: the bouncing box stays inside the frame.  After every get_frame
\* call of the dummy-bounce source 0 <= x, x + 80 < 640, 0 <= y, y + 80 <
\* 480 and |dx| = |dy| = 8; an axis velocity changes sign exactly in the
\* calls whose tentative move would leave that range, and in those calls
\* the position on that axis is unchanged, in the others it moves by the
\* velocity.
BounceInside ==
  /\ [](call.fn = "getDummyFrame" =>
          LET b == call.bounce
          IN /\ 0 <= b.x /\ b.x + BOX < CAM_W
             /\ 0 <= b.y /\ b.y + BOX < CAM_H
             /\ b.dx \in {-8, 8} /\ b.dy \in {-8, 8})
  /\ [][LET b == call.bounce
            c == call'.bounce
        IN /\ (c.dx = 0 - b.dx) <=> BounceLeaves(b.x, b.dx, CAM_W)
           /\ (c.dy = 0 - b.dy) <=> BounceLeaves(b.y, b.dy, CAM_H)
           /\ c.x = IF BounceLeaves(b.x, b.dx, CAM_W) THEN b.x
                    ELSE b.x + b.dx
           /\ c.y = IF BounceLeaves(b.y, b.dy, CAM_H) THEN b.y
                    ELSE b.y + b.dy]_vars

\* C36 witness: a call has just turned the box round at the right edge and
\* an earlier one at the top edge.
BounceTurnedSeen ==
  /\ call.fn = "getDummyFrame"
  /\ call.bounce.x = 556 /\ call.bounce.dx = -8
  /\ call.bounce.y < 100 /\ call.bounce.dy = 8

====
